---- MODULE Spec2Model ----
(***************************************************************************)
(* A model of datacratic/gosconf: the Configs / TypeConfigs container of   *)
(* versioned configs and tombstones, and the Router that serialises        *)
(* mutations of it, notifies handlers and publishes copy-on-write          *)
(* snapshots.                                                              *)
(*                                                                         *)
(* Config types and config IDs are strings in the program; here type k     *)
(* stands for the string "t<k>" and ID k for "c<k>".  A Go map is a        *)
(* function whose DOMAIN is the set of keys present; a nil map reads as an *)
(* empty map in Go, so both are the function with the empty domain.  The   *)
(* order in which Go ranges over a map is unspecified: every operator that *)
(* ranges over a map yields the set of all outcomes, one per order.        *)
(***************************************************************************)
EXTENDS Integers, Sequences, FiniteSets, TLC

\* ------------------------------------------------------------------ bounds

\* Number of config types the container specification draws from.
NumTypes == 2
\* Number of config IDs per type.
NumIds == 1
\* Versions range over 0..MaxVersion.
MaxVersion == 1
\* Number of distinct payloads (the Data field of a Config).
NumPayloads == 2
\* Number of NewConfig / DeadConfig calls made on the two containers.
MaxInserts == 3

\* Number of config types sent to the router: t0, t1 and t2.
NumRouterTypes == 3
\* Number of calls producers make on the router.
MaxCalls == 3
\* Number of calls producers make on the router while it fills a batch.
MaxBatchCalls == 18
\* Number of NewConfig / DeadConfig calls made on the AOFConfigDB.
MaxAppends == 3
\* Number of times the file of the AOFConfigDB is opened.
MaxOpens == 2
\* Router.QueueSize, the capacity of each of the router's channels.
QueueSize == 2

Types == 0 .. (NumTypes - 1)
Ids == 0 .. (NumIds - 1)
Versions == 0 .. MaxVersion
Payloads == 0 .. (NumPayloads - 1)

\* ------------------------------------------------------------- data model

\* The nil pointer.
Nil == [nil |-> TRUE]

Config(typ, ID, version, data) ==
    [Type |-> typ, ID |-> ID, Version |-> version, Data |-> data]

Tombstone(typ, ID, version) ==
    [Type |-> typ, ID |-> ID, Version |-> version]

\* Config.Tombstone(): the tombstone that kills the config.
Config_Tombstone(config) ==
    [Type |-> config.Type, ID |-> config.ID, Version |-> config.Version]

AllConfigs == {Config(t, i, v, d) : t \in Types, i \in Ids, v \in Versions, d \in Payloads}
AllTombstones == {Tombstone(t, i, v) : t \in Types, i \in Ids, v \in Versions}

EmptyMap == [k \in {} |-> Nil]

MapPut(m, key, value) ==
    [k \in (DOMAIN m) \cup {key} |-> IF k = key THEN value ELSE m[k]]

MapDelete(m, key) ==
    [k \in (DOMAIN m) \ {key} |-> m[k]]

MapValues(m) == {m[k] : k \in DOMAIN m}

\* All the orders in which a range loop may visit the keys of a map.
RECURSIVE RangeOrders(_)
RangeOrders(keys) ==
    IF keys = {} THEN {<< >>}
    ELSE UNION {{<<k>> \o rest : rest \in RangeOrders(keys \ {k})} : k \in keys}

\* ------------------------------------------------------------ TypeConfigs

\* The zero TypeConfigs{}.
NewTypeConfigs == [Configs |-> EmptyMap, Tombstones |-> EmptyMap]

TypeConfigs_Copy(configs) ==
    [Configs |-> [ID \in DOMAIN configs.Configs |-> configs.Configs[ID]],
     Tombstones |->
        [ID \in {tombstone.ID : tombstone \in MapValues(configs.Tombstones)} |->
            CHOOSE tombstone \in MapValues(configs.Tombstones) : tombstone.ID = ID]]

TypeConfigs_Len(configs) ==
    Cardinality(DOMAIN configs.Configs) + Cardinality(DOMAIN configs.Tombstones)

\* ConfigResult; the second result (present) is the field ok.
TypeConfigs_Get(configs, ID) ==
    IF ID \in DOMAIN configs.Configs
    THEN [Config |-> configs.Configs[ID], Tombstone |-> Nil, ok |-> TRUE]
    ELSE IF ID \in DOMAIN configs.Tombstones
    THEN [Config |-> Nil, Tombstone |-> configs.Tombstones[ID], ok |-> TRUE]
    ELSE [Config |-> Nil, Tombstone |-> Nil, ok |-> FALSE]

isNewConfig_NoTombstoneCheck(configs, ID, version) ==
    IF ID \in DOMAIN configs.Configs
    THEN version > configs.Configs[ID].Version
    ELSE TRUE

isNewConfig_AcceptsEqual(configs, ID, version) ==
    IF ID \in DOMAIN configs.Configs
    THEN version >= configs.Configs[ID].Version
    ELSE IF ID \in DOMAIN configs.Tombstones
    THEN version > configs.Tombstones[ID].Version
    ELSE TRUE

isNewConfig(configs, ID, version) ==
    IF ID \in DOMAIN configs.Configs
    THEN version > configs.Configs[ID].Version
    ELSE IF ID \in DOMAIN configs.Tombstones
    THEN version > configs.Tombstones[ID].Version
    ELSE TRUE

isNewTombstone_Strict(configs, ID, version) ==
    IF ID \in DOMAIN configs.Configs
    THEN version > configs.Configs[ID].Version
    ELSE IF ID \in DOMAIN configs.Tombstones
    THEN version > configs.Tombstones[ID].Version
    ELSE TRUE

isNewTombstone_AcceptsEqual(configs, ID, version) ==
    IF ID \in DOMAIN configs.Configs
    THEN version >= configs.Configs[ID].Version
    ELSE IF ID \in DOMAIN configs.Tombstones
    THEN version >= configs.Tombstones[ID].Version
    ELSE TRUE

isNewTombstone(configs, ID, version) ==
    IF ID \in DOMAIN configs.Configs
    THEN version >= configs.Configs[ID].Version
    ELSE IF ID \in DOMAIN configs.Tombstones
    THEN version > configs.Tombstones[ID].Version
    ELSE TRUE

\* Results are records: state is the container after the call.
TypeConfigs_NewConfig_KeepTombstone(configs, config) ==
    IF ~isNewConfig(configs, config.ID, config.Version)
    THEN [state |-> configs, oldConfig |-> Nil, isNew |-> FALSE]
    ELSE [state |-> [configs EXCEPT !.Configs = MapPut(configs.Configs, config.ID, config)],
          oldConfig |-> IF config.ID \in DOMAIN configs.Configs
                        THEN configs.Configs[config.ID] ELSE Nil,
          isNew |-> TRUE]

TypeConfigs_NewConfig(configs, config) ==
    IF ~isNewConfig(configs, config.ID, config.Version)
    THEN [state |-> configs, oldConfig |-> Nil, isNew |-> FALSE]
    ELSE [state |-> [Configs |-> MapPut(configs.Configs, config.ID, config),
                     Tombstones |-> MapDelete(configs.Tombstones, config.ID)],
          oldConfig |-> IF config.ID \in DOMAIN configs.Configs
                        THEN configs.Configs[config.ID] ELSE Nil,
          isNew |-> TRUE]

\* DeadConfig that removes the config it kills and keeps no tombstone.
TypeConfigs_DeadConfig_Forget(configs, tombstone) ==
    IF ~isNewTombstone(configs, tombstone.ID, tombstone.Version)
    THEN [state |-> configs, oldConfig |-> Nil, isNew |-> FALSE]
    ELSE [state |-> [Configs |-> MapDelete(configs.Configs, tombstone.ID),
                     Tombstones |-> configs.Tombstones],
          oldConfig |-> IF tombstone.ID \in DOMAIN configs.Configs
                        THEN configs.Configs[tombstone.ID] ELSE Nil,
          isNew |-> TRUE]

TypeConfigs_DeadConfig(configs, tombstone) ==
    IF ~isNewTombstone(configs, tombstone.ID, tombstone.Version)
    THEN [state |-> configs, oldConfig |-> Nil, isNew |-> FALSE]
    ELSE [state |-> [Configs |-> MapDelete(configs.Configs, tombstone.ID),
                     Tombstones |-> MapPut(configs.Tombstones, tombstone.ID, tombstone)],
          oldConfig |-> IF tombstone.ID \in DOMAIN configs.Configs
                        THEN configs.Configs[tombstone.ID] ELSE Nil,
          isNew |-> TRUE]

\* The first loop of Merge, visiting other's configs in the given order.
RECURSIVE TypeConfigs_MergeConfigs(_, _, _, _)
TypeConfigs_MergeConfigs(configs, other, order, newConfigs) ==
    IF order = << >> THEN [state |-> configs, newConfigs |-> newConfigs]
    ELSE LET config == other.Configs[Head(order)]
             r == TypeConfigs_NewConfig(configs, config)
         IN TypeConfigs_MergeConfigs(r.state, other, Tail(order),
                IF r.isNew THEN Append(newConfigs, config) ELSE newConfigs)

\* The second loop of Merge, visiting other's tombstones in the given order.
RECURSIVE TypeConfigs_MergeTombstones(_, _, _, _)
TypeConfigs_MergeTombstones(configs, other, order, deadConfigs) ==
    IF order = << >> THEN [state |-> configs, deadConfigs |-> deadConfigs]
    ELSE LET tombstone == other.Tombstones[Head(order)]
             r == TypeConfigs_DeadConfig(configs, tombstone)
         IN TypeConfigs_MergeTombstones(r.state, other, Tail(order),
                IF r.isNew THEN Append(deadConfigs, tombstone) ELSE deadConfigs)

\* The outcomes of configs.Merge(other), one per iteration order.
TypeConfigs_Merge(configs, other) ==
    {LET live == TypeConfigs_MergeConfigs(configs, other, liveOrder, << >>)
         dead == TypeConfigs_MergeTombstones(live.state, other, deadOrder, << >>)
     IN [state |-> dead.state, newConfigs |-> live.newConfigs,
         deadConfigs |-> dead.deadConfigs] :
        liveOrder \in RangeOrders(DOMAIN other.Configs),
        deadOrder \in RangeOrders(DOMAIN other.Tombstones)}

\* The first loop of Diff, visiting other's configs in the given order.
RECURSIVE TypeConfigs_DiffConfigs(_, _, _, _)
TypeConfigs_DiffConfigs(configs, other, order, newConfigs) ==
    IF order = << >> THEN newConfigs
    ELSE LET config == other.Configs[Head(order)]
         IN TypeConfigs_DiffConfigs(configs, other, Tail(order),
                IF isNewConfig(configs, config.ID, config.Version)
                THEN Append(newConfigs, config) ELSE newConfigs)

\* The second loop of Diff with the rule of configs applied to tombstones.
RECURSIVE TypeConfigs_DiffTombstones_ConfigRule(_, _, _, _)
TypeConfigs_DiffTombstones_ConfigRule(configs, other, order, deadConfigs) ==
    IF order = << >> THEN deadConfigs
    ELSE LET tombstone == other.Tombstones[Head(order)]
         IN TypeConfigs_DiffTombstones_ConfigRule(configs, other, Tail(order),
                IF isNewConfig(configs, tombstone.ID, tombstone.Version)
                THEN Append(deadConfigs, tombstone) ELSE deadConfigs)

\* The second loop of Diff, visiting other's tombstones in the given order.
RECURSIVE TypeConfigs_DiffTombstones(_, _, _, _)
TypeConfigs_DiffTombstones(configs, other, order, deadConfigs) ==
    IF order = << >> THEN deadConfigs
    ELSE LET tombstone == other.Tombstones[Head(order)]
         IN TypeConfigs_DiffTombstones(configs, other, Tail(order),
                IF isNewTombstone(configs, tombstone.ID, tombstone.Version)
                THEN Append(deadConfigs, tombstone) ELSE deadConfigs)

\* The results of configs.Diff(other), one per iteration order.
TypeConfigs_Diff(configs, other) ==
    {[newConfigs |-> TypeConfigs_DiffConfigs(configs, other, liveOrder, << >>),
      deadConfigs |-> TypeConfigs_DiffTombstones(configs, other, deadOrder, << >>)] :
        liveOrder \in RangeOrders(DOMAIN other.Configs),
        deadOrder \in RangeOrders(DOMAIN other.Tombstones)}

\* ---------------------------------------------------------------- Configs

\* The zero Configs{}.
NewConfigs == [Types |-> EmptyMap]

Configs_Copy(configs) ==
    [Types |-> [typ \in DOMAIN configs.Types |-> TypeConfigs_Copy(configs.Types[typ])]]

\* getState creates the TypeConfigs of typ on demand: the result is the
\* container after the call, whose Types[typ] is the state returned.
getState(configs, typ) ==
    IF typ \in DOMAIN configs.Types THEN configs
    ELSE [Types |-> MapPut(configs.Types, typ, NewTypeConfigs)]

RECURSIVE SumLen(_, _)
SumLen(configs, types) ==
    IF types = {} THEN 0
    ELSE LET typ == CHOOSE t \in types : TRUE
         IN TypeConfigs_Len(configs.Types[typ]) + SumLen(configs, types \ {typ})

Configs_Len(configs) == SumLen(configs, DOMAIN configs.Types)

Configs_Get(configs, typ, ID) ==
    IF typ \in DOMAIN configs.Types
    THEN TypeConfigs_Get(configs.Types[typ], ID)
    ELSE [Config |-> Nil, Tombstone |-> Nil, ok |-> FALSE]

Configs_NewConfig(configs, config) ==
    LET held == getState(configs, config.Type)
        r == TypeConfigs_NewConfig(held.Types[config.Type], config)
    IN [state |-> [Types |-> MapPut(held.Types, config.Type, r.state)],
        oldConfig |-> r.oldConfig, isNew |-> r.isNew]

Configs_DeadConfig(configs, tombstone) ==
    LET held == getState(configs, tombstone.Type)
        r == TypeConfigs_DeadConfig(held.Types[tombstone.Type], tombstone)
    IN [state |-> [Types |-> MapPut(held.Types, tombstone.Type, r.state)],
        oldConfig |-> r.oldConfig, isNew |-> r.isNew]

\* The loop of Configs.Merge over the types of other still to visit.
RECURSIVE Configs_MergeTypes(_, _, _, _, _)
Configs_MergeTypes(configs, other, types, newConfigs, deadConfigs) ==
    IF types = {}
    THEN {[state |-> configs, newConfigs |-> newConfigs, deadConfigs |-> deadConfigs]}
    ELSE UNION {
            LET held == getState(configs, typ)
            IN UNION {
                 Configs_MergeTypes(
                     [Types |-> MapPut(held.Types, typ, r.state)], other, types \ {typ},
                     newConfigs \o r.newConfigs, deadConfigs \o r.deadConfigs) :
                 r \in TypeConfigs_Merge(held.Types[typ], other.Types[typ])} :
            typ \in types}

\* The outcomes of configs.Merge(other), one per iteration order.
Configs_Merge(configs, other) ==
    Configs_MergeTypes(configs, other, DOMAIN other.Types, << >>, << >>)

\* The loop of Configs.Diff over the types of other still to visit; getState
\* gives configs a TypeConfigs for each type visited.
RECURSIVE Configs_DiffTypes(_, _, _, _, _)
Configs_DiffTypes(configs, other, types, newConfigs, deadConfigs) ==
    IF types = {}
    THEN {[state |-> configs, newConfigs |-> newConfigs, deadConfigs |-> deadConfigs]}
    ELSE UNION {
            LET held == getState(configs, typ)
            IN UNION {
                 Configs_DiffTypes(held, other, types \ {typ},
                     newConfigs \o r.newConfigs, deadConfigs \o r.deadConfigs) :
                 r \in TypeConfigs_Diff(held.Types[typ], other.Types[typ])} :
            typ \in types}

\* The results of configs.Diff(other), one per iteration order.
Configs_Diff(configs, other) ==
    Configs_DiffTypes(configs, other, DOMAIN other.Types, << >>, << >>)

\* The configs and the tombstones a container holds, as sets.
LiveConfigs(configs) ==
    UNION {MapValues(configs.Types[typ].Configs) : typ \in DOMAIN configs.Types}

DeadConfigs(configs) ==
    UNION {MapValues(configs.Types[typ].Tombstones) : typ \in DOMAIN configs.Types}

\* The arrays ConfigArray may return: the types in any order, and the configs
\* of each type in any order.
RECURSIVE ConfigArrayFrom(_, _)
ConfigArrayFrom(configs, types) ==
    IF types = {} THEN {<< >>}
    ELSE UNION {
            {[i \in 1 .. Len(order) |-> configs.Types[typ].Configs[order[i]]] \o rest :
                order \in RangeOrders(DOMAIN configs.Types[typ].Configs),
                rest \in ConfigArrayFrom(configs, types \ {typ})} :
            typ \in types}

ConfigArray(configs) == ConfigArrayFrom(configs, DOMAIN configs.Types)

\* ----------------------------------------------- handlers and Configurables

\* Router.Handlers of the router modelled: H1 and H2 are Routable, H3 is not.
RouterHandlers == <<"H1", "H2", "H3">>

\* Routable.AllowedConfigTypes of a handler; the empty list for one that is
\* not Routable, as newRouterState reads it.
HandlerTypes(handler) ==
    CASE handler = "H1" -> <<1>>
      [] handler = "H2" -> <<1, 2>>
      [] OTHER -> << >>

\* The Configurable objects producers register, by registration key: "o0"
\* allows every type, "o1" is Routable with AllowedConfigTypes = [t1].
StateKeys == {"o0", "o1"}

StateTypes(key) == IF key = "o1" THEN <<1>> ELSE << >>

\* A Configurable: the types it allows and the configs it has been told of.
NewConfigurable(key) == [Types |-> StateTypes(key), Data |-> {}]

\* Configurable.Copy() of a state that keeps its data in a map of its own.
Configurable_Copy(obj) == [Types |-> obj.Types, Data |-> {c \in obj.Data : TRUE}]

Configurable_NewConfig(obj, newConfig) == [obj EXCEPT !.Data = @ \cup {newConfig}]

Configurable_DeadConfig(obj, oldConfig) == [obj EXCEPT !.Data = @ \ {oldConfig}]

\* The error NewConfig or DeadConfig of the state registered under key
\* returns, or Nil: "o0" takes every config and complains of those of type t1.
Configurable_Err(key, kind, config) ==
    IF key = "o0" /\ config.Type = 1
    THEN [state |-> key, kind |-> kind, config |-> config]
    ELSE Nil

appendError(result, err) == IF err # Nil THEN Append(result, err) ELSE result

\* The error made of the messages of the errors of a list, or Nil.
combineErrors(list) == IF list = << >> THEN Nil ELSE [errors |-> list]

\* json.Marshal of a Config or of a Tombstone: the fields in the order of the
\* struct, each under its json name; Data is left out of a Tombstone.
json_Marshal(obj) ==
    [data |-> <<<<"type", obj.Type>>, <<"id", obj.ID>>, <<"ver", obj.Version>>>>
              \o (IF "Data" \in DOMAIN obj THEN <<<<"data", obj.Data>>>> ELSE << >>),
     err |-> Nil]

\* A call the router makes on a handler or on a registered state.
Call(target, kind, arg) == [target |-> target, kind |-> kind, arg |-> arg]

MapGet(m, key) == IF key \in DOMAIN m THEN m[key] ELSE << >>

MapAppend(m, key, value) == MapPut(m, key, Append(MapGet(m, key), value))

\* ------------------------------------------------------------ routerState

RECURSIVE AddTyped(_, _, _)
AddTyped(table, types, item) ==
    IF types = << >> THEN table
    ELSE AddTyped(MapAppend(table, Head(types), item), Tail(types), item)

RECURSIVE AddHandlers(_, _)
AddHandlers(state, handlers) ==
    IF handlers = << >> THEN state
    ELSE LET handler == Head(handlers)
             types == HandlerTypes(handler)
         IN AddHandlers(
                IF Len(types) = 0
                THEN [state EXCEPT !.untypedHandlers = Append(@, handler)]
                ELSE [state EXCEPT !.typedHandlers = AddTyped(@, types, handler)],
                Tail(handlers))

newRouterState(configs, handlers) ==
    AddHandlers(
        [Configs |-> IF configs = Nil THEN NewConfigs ELSE configs,
         KeyedStates |-> EmptyMap,
         typedStates |-> EmptyMap,
         untypedStates |-> << >>,
         untypedHandlers |-> << >>,
         typedHandlers |-> EmptyMap],
        handlers)

\* obj.NewConfig(config) for each config of a sequence, on the state
\* registered under key; calls collects the calls made.
RECURSIVE ReplayConfigs(_, _, _, _)
ReplayConfigs(state, key, configs, calls) ==
    IF configs = << >> THEN [state |-> state, calls |-> calls]
    ELSE ReplayConfigs(
            [state EXCEPT !.KeyedStates[key] = Configurable_NewConfig(@, Head(configs))],
            key, Tail(configs), Append(calls, Call(key, "NewConfig", Head(configs))))

\* The loop of registerState over the allowed types of a Routable object.
RECURSIVE RegisterTyped(_, _, _, _, _)
RegisterTyped(state, key, types, notify, calls) ==
    IF types = << >> THEN {[state |-> state, calls |-> calls]}
    ELSE LET typ == Head(types)
             added == [state EXCEPT !.typedStates = MapAppend(@, typ, key)]
         IN IF notify /\ typ \in DOMAIN state.Configs.Types
            THEN UNION {
                    LET r == ReplayConfigs(added, key,
                                 [i \in 1 .. Len(order) |->
                                     state.Configs.Types[typ].Configs[order[i]]], calls)
                    IN RegisterTyped(r.state, key, Tail(types), notify, r.calls) :
                    order \in RangeOrders(DOMAIN state.Configs.Types[typ].Configs)}
            ELSE RegisterTyped(added, key, Tail(types), notify, calls)

\* The outcomes of state.registerState(key, obj, notify), for a key that is
\* not registered yet; one outcome per order of the replay.
routerState_registerState_AlwaysNotify(state, key, obj, notify) ==
    LET keyed == [state EXCEPT !.KeyedStates = MapPut(@, key, obj)]
    IN IF Len(obj.Types) = 0
       THEN {ReplayConfigs([keyed EXCEPT !.untypedStates = Append(@, key)],
                           key, array, << >>) :
                array \in ConfigArray(state.Configs)}
       ELSE RegisterTyped(keyed, key, obj.Types, TRUE, << >>)

routerState_registerState(state, key, obj, notify) ==
    LET keyed == [state EXCEPT !.KeyedStates = MapPut(@, key, obj)]
    IN IF Len(obj.Types) = 0
       THEN LET added == [keyed EXCEPT !.untypedStates = Append(@, key)]
            IN IF notify
               THEN {ReplayConfigs(added, key, array, << >>) :
                        array \in ConfigArray(state.Configs)}
               ELSE {[state |-> added, calls |-> << >>]}
       ELSE RegisterTyped(keyed, key, obj.Types, notify, << >>)

routerState_RegisterState_NoReplay(state, key, obj) ==
    routerState_registerState(state, key, obj, FALSE)

routerState_RegisterState(state, key, obj) ==
    routerState_registerState(state, key, obj, TRUE)

\* The loop of Copy over the registered states still to copy; calls collects
\* the calls made on the copies.
RECURSIVE CopyStates(_, _, _, _)
CopyStates(newState, state, keys, calls) ==
    IF keys = {} THEN {[state |-> newState, calls |-> calls]}
    ELSE UNION {
            UNION {CopyStates(r.state, state, keys \ {key}, calls \o r.calls) :
                     r \in routerState_registerState(newState, key,
                               Configurable_Copy(state.KeyedStates[key]), FALSE)} :
            key \in keys}

\* The outcomes of state.Copy(), one per order the registered states are
\* visited in: the copy, and the calls made on the copies of the states.
routerState_Copy(state) ==
    CopyStates(
        [Configs |-> Configs_Copy(state.Configs),
         KeyedStates |-> EmptyMap,
         typedStates |-> EmptyMap,
         untypedStates |-> << >>,
         untypedHandlers |-> state.untypedHandlers,
         typedHandlers |-> state.typedHandlers],
        state, DOMAIN state.KeyedStates, << >>)

\* removeTarget: the list without the first occurrence of the target.
RemoveTarget(list, target) ==
    LET i == CHOOSE j \in 1 .. Len(list) :
                 list[j] = target /\ \A k \in 1 .. (j - 1) : list[k] # target
    IN SubSeq(list, 1, i - 1) \o SubSeq(list, i + 1, Len(list))

RECURSIVE UnregisterTyped(_, _, _)
UnregisterTyped(table, types, target) ==
    IF types = << >> THEN table
    ELSE UnregisterTyped(
            MapPut(table, Head(types), RemoveTarget(MapGet(table, Head(types)), target)),
            Tail(types), target)

\* state.UnregisterState(target), for a key that is registered.
routerState_UnregisterState(state, target) ==
    LET types == state.KeyedStates[target].Types
        removed == [state EXCEPT !.KeyedStates = MapDelete(@, target)]
    IN IF Len(types) = 0
       THEN [removed EXCEPT !.untypedStates = RemoveTarget(@, target)]
       ELSE [removed EXCEPT !.typedStates = UnregisterTyped(@, types, target)]

\* The handlers a config event of type typ is routed to, in call order.
HandlersFor_Unfiltered(state, typ) ==
    state.untypedHandlers \o
    (CHOOSE order \in RangeOrders(UNION {{state.typedHandlers[t][i] :
                                            i \in 1 .. Len(state.typedHandlers[t])} :
                                         t \in DOMAIN state.typedHandlers}) : TRUE)

HandlersFor(state, typ) ==
    state.untypedHandlers \o MapGet(state.typedHandlers, typ)

\* The registered states a config event of type typ is routed to.
StatesFor(state, typ) ==
    state.untypedStates \o MapGet(state.typedStates, typ)

HandlerCalls(handlers, kind, arg) ==
    [i \in 1 .. Len(handlers) |-> Call(handlers[i], kind, arg)]

\* The errors the calls made on the registered states returned, appended to
\* errors in the order of the calls.
RECURSIVE StateErrors(_, _)
StateErrors(errors, calls) ==
    IF calls = << >> THEN errors
    ELSE StateErrors(
            appendError(errors, Configurable_Err(Head(calls).target, Head(calls).kind,
                                                 Head(calls).arg)),
            Tail(calls))

\* The loops of routerState.NewConfig, left at the first state that returns
\* an error.
RECURSIVE NotifyNew_StopOnError(_, _, _, _, _)
NotifyNew_StopOnError(state, keys, oldConfig, config, calls) ==
    IF keys = << >> THEN [state |-> state, calls |-> calls]
    ELSE LET key == Head(keys)
             dead == IF oldConfig # Nil
                     THEN [state EXCEPT
                              !.KeyedStates[key] = Configurable_DeadConfig(@, oldConfig)]
                     ELSE state
             deadCalls == IF oldConfig # Nil
                          THEN Append(calls, Call(key, "DeadConfig", oldConfig))
                          ELSE calls
             done == [state |-> [dead EXCEPT
                                    !.KeyedStates[key] = Configurable_NewConfig(@, config)],
                      calls |-> Append(deadCalls, Call(key, "NewConfig", config))]
         IN IF Configurable_Err(key, "NewConfig", config) # Nil
            THEN done
            ELSE NotifyNew_StopOnError(done.state, Tail(keys), oldConfig, config, done.calls)

\* The loops of routerState.NewConfig over the registered states.
RECURSIVE NotifyNew_NewFirst(_, _, _, _, _)
NotifyNew_NewFirst(state, keys, oldConfig, config, calls) ==
    IF keys = << >> THEN [state |-> state, calls |-> calls]
    ELSE LET key == Head(keys)
             new == [state EXCEPT !.KeyedStates[key] = Configurable_NewConfig(@, config)]
             newCalls == Append(calls, Call(key, "NewConfig", config))
         IN NotifyNew_NewFirst(
                IF oldConfig # Nil
                THEN [new EXCEPT !.KeyedStates[key] = Configurable_DeadConfig(@, oldConfig)]
                ELSE new,
                Tail(keys), oldConfig, config,
                IF oldConfig # Nil
                THEN Append(newCalls, Call(key, "DeadConfig", oldConfig))
                ELSE newCalls)

RECURSIVE NotifyNew(_, _, _, _, _)
NotifyNew(state, keys, oldConfig, config, calls) ==
    IF keys = << >> THEN [state |-> state, calls |-> calls]
    ELSE LET key == Head(keys)
             dead == IF oldConfig # Nil
                     THEN [state EXCEPT
                              !.KeyedStates[key] = Configurable_DeadConfig(@, oldConfig)]
                     ELSE state
             deadCalls == IF oldConfig # Nil
                          THEN Append(calls, Call(key, "DeadConfig", oldConfig))
                          ELSE calls
         IN NotifyNew(
                [dead EXCEPT !.KeyedStates[key] = Configurable_NewConfig(@, config)],
                Tail(keys), oldConfig, config,
                Append(deadCalls, Call(key, "NewConfig", config)))

\* routerState.DeadConfig that calls no registered state.
NotifyDead_Skip(state, keys, oldConfig, calls) == [state |-> state, calls |-> calls]

\* The loops of routerState.DeadConfig over the registered states.
RECURSIVE NotifyDead(_, _, _, _)
NotifyDead(state, keys, oldConfig, calls) ==
    IF keys = << >> THEN [state |-> state, calls |-> calls]
    ELSE NotifyDead(
            [state EXCEPT !.KeyedStates[Head(keys)] = Configurable_DeadConfig(@, oldConfig)],
            Tail(keys), oldConfig, Append(calls, Call(Head(keys), "DeadConfig", oldConfig)))

\* state.NewConfig(config): handlerCalls and stateCalls are the calls made on
\* the handlers and on the registered states, in order.
routerState_NewConfig_AlwaysNotify(state, config) ==
    LET r == Configs_NewConfig(state.Configs, config)
        stored == [state EXCEPT !.Configs = r.state]
        n == NotifyNew(stored, StatesFor(stored, config.Type), r.oldConfig, config, << >>)
    IN [state |-> n.state,
        handlerCalls |-> HandlerCalls(HandlersFor(stored, config.Type), "NewConfig", config),
        stateCalls |-> n.calls,
        err |-> combineErrors(StateErrors(<< >>, n.calls))]

routerState_NewConfig(state, config) ==
    LET r == Configs_NewConfig(state.Configs, config)
        stored == [state EXCEPT !.Configs = r.state]
    IN IF ~r.isNew
       THEN [state |-> stored, handlerCalls |-> << >>, stateCalls |-> << >>, err |-> Nil]
       ELSE LET n == NotifyNew(stored, StatesFor(stored, config.Type),
                         r.oldConfig, config, << >>)
            IN [state |-> n.state,
                handlerCalls |->
                    HandlerCalls(HandlersFor(stored, config.Type), "NewConfig", config),
                stateCalls |-> n.calls,
                err |-> combineErrors(StateErrors(<< >>, n.calls))]

routerState_DeadConfig_AlwaysNotify(state, tombstone) ==
    LET r == Configs_DeadConfig(state.Configs, tombstone)
        stored == [state EXCEPT !.Configs = r.state]
    IN [state |-> stored,
        handlerCalls |-> HandlerCalls(HandlersFor(stored, tombstone.Type),
                             "DeadConfig", tombstone),
        stateCalls |-> << >>, err |-> Nil]

routerState_DeadConfig(state, tombstone) ==
    LET r == Configs_DeadConfig(state.Configs, tombstone)
        stored == [state EXCEPT !.Configs = r.state]
    IN IF ~r.isNew
       THEN [state |-> stored, handlerCalls |-> << >>, stateCalls |-> << >>, err |-> Nil]
       ELSE LET calls == HandlerCalls(HandlersFor(stored, tombstone.Type),
                             "DeadConfig", tombstone)
            IN IF r.oldConfig = Nil
               THEN [state |-> stored, handlerCalls |-> calls, stateCalls |-> << >>,
                     err |-> Nil]
               ELSE LET n == NotifyDead(stored, StatesFor(stored, tombstone.Type),
                                 r.oldConfig, << >>)
                    IN [state |-> n.state, handlerCalls |-> calls, stateCalls |-> n.calls,
                        err |-> combineErrors(StateErrors(<< >>, n.calls))]

\* One after the other: the calls of step follow the calls made so far.
Then(sofar, step) ==
    [state |-> step.state,
     handlerCalls |-> sofar.handlerCalls \o step.handlerCalls,
     stateCalls |-> sofar.stateCalls \o step.stateCalls,
     errors |-> appendError(sofar.errors, step.err)]

RECURSIVE PushLive(_, _, _)
PushLive(sofar, typed, order) ==
    IF order = << >> THEN sofar
    ELSE PushLive(Then(sofar, routerState_NewConfig(sofar.state, typed.Configs[Head(order)])),
                  typed, Tail(order))

RECURSIVE PushDead(_, _, _)
PushDead(sofar, typed, order) ==
    IF order = << >> THEN sofar
    ELSE PushDead(Then(sofar,
                      routerState_DeadConfig(sofar.state, typed.Tombstones[Head(order)])),
                  typed, Tail(order))

\* The loop of PushConfigs over the types of configs still to visit.
RECURSIVE PushTypes(_, _, _)
PushTypes(sofar, configs, types) ==
    IF types = {} THEN {sofar}
    ELSE UNION {
            UNION {
                PushTypes(PushDead(PushLive(sofar, configs.Types[typ], liveOrder),
                                   configs.Types[typ], deadOrder),
                          configs, types \ {typ}) :
                liveOrder \in RangeOrders(DOMAIN configs.Types[typ].Configs),
                deadOrder \in RangeOrders(DOMAIN configs.Types[typ].Tombstones)} :
            typ \in types}

\* The outcomes of state.PushConfigs(configs), one per iteration order.
routerState_PushConfigs(state, configs) ==
    {[state |-> r.state, handlerCalls |-> r.handlerCalls, stateCalls |-> r.stateCalls,
      err |-> combineErrors(r.errors)] :
        r \in PushTypes([state |-> state, handlerCalls |-> << >>, stateCalls |-> << >>,
                         errors |-> << >>],
                        configs, DOMAIN configs.Types)}

\* ------------------------------------------------------------------ state

VARIABLES
    stores,     \* the two Configs containers "A" and "B"
    applied,    \* the mutations applied so far: [target, kind, arg]
    last,       \* the last call made and what it returned
    heap,       \* the routerState objects allocated, by address
    current,    \* Router.state: the address of the published routerState
    queues,     \* the router's channels
    mutator,    \* the router's goroutine: where it is, and its private copy
    handlerLog, \* the calls each handler has received, in order
    stateLog,   \* the calls the state registered under each key has received
    reader,     \* a snapshot a reader obtained from State(), and what it read
    calls,      \* the number of calls producers have made
    poller,     \* the Poller: its fields, its goroutines and the callers of it
    aof         \* an AOFConfigDB and the file it is stored in

storeVars == <<stores, applied>>

routerVars == <<heap, current, queues, mutator, handlerLog, stateLog, reader, calls>>

pollerVars == <<poller>>

aofVars == <<aof>>

vars == <<stores, applied, last, heap, current, queues, mutator, handlerLog, stateLog,
          reader, calls, poller, aof>>

StoreNames == {"A", "B"}

Other(s) == IF s = "A" THEN "B" ELSE "A"

Applied(s, kind, arg) == [target |-> s, kind |-> kind, arg |-> arg]

\* The entries a container holds, as the mutations that put them there.
Entries(configs) ==
    {[kind |-> "config", arg |-> c] : c \in LiveConfigs(configs)}
    \cup {[kind |-> "tombstone", arg |-> t] : t \in DeadConfigs(configs)}

\* Apply one mutation to a container.
Apply(configs, m) ==
    IF m.kind = "config" THEN Configs_NewConfig(configs, m.arg)
    ELSE Configs_DeadConfig(configs, m.arg)

\* Apply the mutations of a sequence, in order.
RECURSIVE ApplyAll(_, _)
ApplyAll(configs, ms) ==
    IF ms = << >> THEN configs
    ELSE ApplyAll(Apply(configs, Head(ms)).state, Tail(ms))

StoreInit ==
    /\ stores = [s \in StoreNames |-> NewConfigs]
    /\ applied = {}
    /\ last = [op |-> "Init"]
    /\ heap = EmptyMap
    /\ current = 0
    /\ queues = EmptyMap
    /\ mutator = [pc |-> "none"]
    /\ handlerLog = EmptyMap
    /\ stateLog = EmptyMap
    /\ reader = [held |-> 0]
    /\ calls = 0
    /\ poller = [pc |-> "none"]
    /\ aof = [pc |-> "none"]

MayApply(a) == a \in applied \/ Cardinality(applied) < MaxInserts

\* configs.NewConfig(config) on container s.
NewConfigCall(s, config) ==
    /\ MayApply(Applied(s, "config", config))
    /\ LET r == Configs_NewConfig(stores[s], config)
       IN /\ stores' = [stores EXCEPT ![s] = r.state]
          /\ last' = [op |-> "NewConfig", target |-> s, arg |-> config,
                      oldConfig |-> r.oldConfig, isNew |-> r.isNew]
    /\ applied' = applied \cup {Applied(s, "config", config)}
    /\ UNCHANGED <<routerVars, pollerVars, aofVars>>

\* configs.DeadConfig(tombstone) on container s.
DeadConfigCall(s, tombstone) ==
    /\ MayApply(Applied(s, "tombstone", tombstone))
    /\ LET r == Configs_DeadConfig(stores[s], tombstone)
       IN /\ stores' = [stores EXCEPT ![s] = r.state]
          /\ last' = [op |-> "DeadConfig", target |-> s, arg |-> tombstone,
                      oldConfig |-> r.oldConfig, isNew |-> r.isNew]
    /\ applied' = applied \cup {Applied(s, "tombstone", tombstone)}
    /\ UNCHANGED <<routerVars, pollerVars, aofVars>>

\* s.Merge(o): container s takes the entries of the other container.
MergeCall(s) ==
    /\ \E r \in Configs_Merge(stores[s], stores[Other(s)]) :
          /\ stores' = [stores EXCEPT ![s] = r.state]
          /\ last' = [op |-> "Merge", target |-> s,
                      newConfigs |-> r.newConfigs, deadConfigs |-> r.deadConfigs]
    /\ applied' = applied \cup
          {Applied(s, m.kind, m.arg) : m \in Entries(stores[Other(s)])}
    /\ UNCHANGED <<routerVars, pollerVars, aofVars>>

\* o = s.Copy(): the other container becomes a copy of s.
CopyCall(s) ==
    /\ stores' = [stores EXCEPT ![Other(s)] = Configs_Copy(stores[s])]
    /\ last' = [op |-> "Copy", target |-> s]
    /\ applied' = {a \in applied : a.target = s}
          \cup {Applied(Other(s), a.kind, a.arg) : a \in {b \in applied : b.target = s}}
    /\ UNCHANGED <<routerVars, pollerVars, aofVars>>

\* s.Copy().Merge(o) and o.Copy().Merge(s), on copies: nothing is stored.
CopyMergeCall(s, o) ==
    /\ \E ab \in Configs_Merge(Configs_Copy(stores[s]), stores[o]),
          ba \in Configs_Merge(Configs_Copy(stores[o]), stores[s]) :
          last' = [op |-> "CopyMerge", target |-> s, other |-> o, ab |-> ab, ba |-> ba]
    /\ UNCHANGED <<stores, applied, routerVars, pollerVars, aofVars>>

\* s.Diff(o): what container s would take from the other container.  merged
\* tells whether the call follows s.Merge(o) with nothing in between.
DiffCall(s) ==
    /\ \E r \in Configs_Diff(stores[s], stores[Other(s)]) :
          /\ stores' = [stores EXCEPT ![s] = r.state]
          /\ last' = [op |-> "Diff", target |-> s,
                      newConfigs |-> r.newConfigs, deadConfigs |-> r.deadConfigs,
                      merged |-> last.op = "Merge" /\ last.target = s]
    /\ UNCHANGED <<applied, routerVars, pollerVars, aofVars>>

\* The mutations applied to the other container so far, replayed into a copy
\* of s in every order: finals are the containers the orders end in.
ReplayCall(s) ==
    /\ LET batch == {[kind |-> a.kind, arg |-> a.arg] :
                        a \in {b \in applied : b.target = Other(s)}}
       IN last' = [op |-> "Replay", target |-> s, batch |-> batch,
                   finals |-> {ApplyAll(Configs_Copy(stores[s]), order) :
                                  order \in RangeOrders(batch)}]
    /\ UNCHANGED <<stores, applied, routerVars, pollerVars, aofVars>>

StoreNext ==
    \/ \E s \in StoreNames, config \in AllConfigs : NewConfigCall(s, config)
    \/ \E s \in StoreNames, tombstone \in AllTombstones : DeadConfigCall(s, tombstone)
    \/ \E s \in StoreNames : MergeCall(s)
    \/ \E s \in StoreNames : CopyCall(s)
    \/ \E s \in StoreNames : DiffCall(s)
    \/ \E o \in StoreNames : CopyMergeCall("A", o)
    \/ ReplayCall("A")

Init == StoreInit

Next == StoreNext

Spec == Init /\ [][Next]_vars

\* ----------------------------------------------------------------- Router

\* The number of messages processMore takes before it returns.
BatchLimit == 16

Channels == {"registerStateC", "unregisterStateC", "newConfigC", "deadConfigC",
             "pushConfigsC"}

\* The configs and tombstones producers hand to the router.
RouterTypes == 0 .. (NumRouterTypes - 1)
RouterConfigs == {Config(t, i, v, 0) : t \in RouterTypes, i \in Ids, v \in Versions}
RouterTombstones == {Tombstone(t, i, v) : t \in RouterTypes, i \in Ids, v \in Versions}

\* The containers producers hand to PushConfigs: each is built with NewConfig
\* and DeadConfig from an empty one.
PushedConfigs ==
    {ApplyAll(NewConfigs, <<[kind |-> "config", arg |-> Config(1, 0, 1, 0)],
                            [kind |-> "tombstone", arg |-> Tombstone(2, 0, 0)]>>),
     ApplyAll(NewConfigs, <<[kind |-> "config", arg |-> Config(0, 0, 0, 0)],
                            [kind |-> "tombstone", arg |-> Tombstone(1, 0, 1)]>>)}

keyedConfigurable(Key, Object) == [Key |-> Key, Object |-> Object]

\* router.get(): the routerState Router.state points to.
Router_get == heap[current]

\* The first address of the heap that holds no object.
NewAddress(h) ==
    CHOOSE a \in 1 .. (Cardinality(DOMAIN h) + 1) :
        a \notin DOMAIN h /\ \A b \in 1 .. (a - 1) : b \in DOMAIN h

\* The heap without the objects no reference leads to.
Collect(h, refs) == [a \in DOMAIN h \cap refs |-> h[a]]

\* state := router.get().Copy(): the heaps that hold the copy, and where.
WorkingCopy_Alias(h, ref) == {[heap |-> h, state |-> ref, calls |-> << >>]}

WorkingCopy(h, ref) ==
    {[heap |-> MapPut(h, NewAddress(h), copy.state), state |-> NewAddress(h),
      calls |-> copy.calls] :
        copy \in routerState_Copy(h[ref])}

\* The outcome of a call that panics in the router's goroutine.
Panic == [panic |-> TRUE]

\* The outcome of a call that returns: reports are the reports the router
\* made to its Reporter.
Done(state, handlerCalls, stateCalls, reports) ==
    [panic |-> FALSE, state |-> state, handlerCalls |-> handlerCalls,
     stateCalls |-> stateCalls, reports |-> reports]

\* router.error(err, obj): the err of `data, err := json.Marshal(obj)` hides
\* the parameter, so the error reported is the one Marshal returned.
Router_error(err, obj) ==
    LET marshalled == json_Marshal(obj)
    IN IF marshalled.err = Nil
       THEN [panic |-> FALSE,
             reports |-> <<[err |-> marshalled.err,
                            data |-> [Name |-> "config", Blob |-> marshalled.data]]>>]
       ELSE [panic |-> TRUE, reports |-> << >>]

\* `if err := state.NewConfig(config); err != nil { router.error(err, config) }`
\* once the call on the routerState has returned r.
Reported(r, obj) ==
    LET e == IF r.err # Nil THEN Router_error(r.err, obj)
             ELSE [panic |-> FALSE, reports |-> << >>]
    IN IF e.panic THEN Panic ELSE Done(r.state, r.handlerCalls, r.stateCalls, e.reports)

\* registerState that takes a key whether it is registered or not.
registerState_Panics_Never(state, key) == FALSE

\* The test of registerState that ends in log.Panicf: key is registered.
registerState_Panics(state, key) == key \in DOMAIN state.KeyedStates

\* The assertf of UnregisterState fails: target is not registered.
UnregisterState_Panics(state, target) == target \notin DOMAIN state.KeyedStates

\* routerState.PushConfigs reads configs.Types: a nil pointer dereference,
\* and a run-time panic, when configs is nil.
PushConfigs_Panics(configs) == configs = Nil

\* What the router's goroutine does with a message received from channel ch,
\* on its private routerState: the set of outcomes.
Process(state, ch, msg) ==
    CASE ch = "registerStateC" ->
            IF registerState_Panics(state, msg.Key) THEN {Panic}
            ELSE {Done(r.state, << >>, r.calls, << >>) :
                    r \in routerState_RegisterState(state, msg.Key, msg.Object)}
      [] ch = "unregisterStateC" ->
            IF UnregisterState_Panics(state, msg) THEN {Panic}
            ELSE {Done(routerState_UnregisterState(state, msg), << >>, << >>, << >>)}
      [] ch = "newConfigC" ->
            {Reported(routerState_NewConfig(state, msg), msg)}
      [] ch = "deadConfigC" ->
            {Reported(routerState_DeadConfig(state, msg), msg)}
      [] ch = "pushConfigsC" ->
            IF PushConfigs_Panics(msg) THEN {Panic}
            ELSE {Done(r.state, r.handlerCalls, r.stateCalls, << >>) :
                    r \in routerState_PushConfigs(state, msg)}

\* The calls of a sequence, each appended to the log of its target.
RECURSIVE Deliver(_, _)
Deliver(log, made) ==
    IF made = << >> THEN log
    ELSE Deliver([log EXCEPT ![Head(made).target] = Append(@, Head(made))], Tail(made))

Idle == [pc |-> "select", state |-> 0, i |-> 0]

NoRead == [op |-> "none", held |-> 0, seen |-> Nil]

\* Router.init with Configs and States left nil, the handlers H1, H2, H3.
RouterInit ==
    /\ stores = [s \in StoreNames |-> NewConfigs]
    /\ applied = {}
    /\ last = [op |-> "init"]
    /\ heap = MapPut(EmptyMap, 1, newRouterState(Nil, RouterHandlers))
    /\ current = 1
    /\ queues = [ch \in Channels |-> << >>] @@ [closeC |-> << >>, order |-> << >>]
    /\ mutator = Idle
    /\ handlerLog = [h \in {RouterHandlers[i] : i \in 1 .. Len(RouterHandlers)} |-> << >>]
    /\ stateLog = [key \in StateKeys |-> << >>]
    /\ reader = NoRead
    /\ calls = 0
    /\ poller = [pc |-> "none"]
    /\ aof = [pc |-> "none"]

MayCall == calls < MaxCalls /\ mutator.pc # "panicked"

\* The pending sends, in the order they were made, once the first of those
\* made on channel ch has been received.
Received(order, ch) ==
    LET i == CHOOSE j \in 1 .. Len(order) :
                 order[j] = ch /\ \A k \in 1 .. (j - 1) : order[k] # ch
    IN SubSeq(order, 1, i - 1) \o SubSeq(order, i + 1, Len(order))

DefaultRouterQueueSize == 256

\* The capacity Router.init gives to each of the five channels.
queueSize == IF QueueSize < 1 THEN DefaultRouterQueueSize ELSE QueueSize

\* ch <- msg with no regard for the capacity of the channel.
Send_Unbounded(ch, msg) ==
    /\ MayCall
    /\ queues' = [queues EXCEPT ![ch] = Append(@, msg), !.order = Append(@, ch)]
    /\ calls' = calls + 1
    /\ UNCHANGED <<storeVars, pollerVars, aofVars, last, heap, current, mutator, handlerLog, stateLog,
                   reader>>

\* ch <- msg on a buffered channel: the sender waits while the buffer is full.
Send(ch, msg) ==
    /\ MayCall
    /\ Len(queues[ch]) < queueSize
    /\ queues' = [queues EXCEPT ![ch] = Append(@, msg), !.order = Append(@, ch)]
    /\ calls' = calls + 1
    /\ UNCHANGED <<storeVars, pollerVars, aofVars, last, heap, current, mutator, handlerLog, stateLog, reader>>

Router_RegisterState(key) ==
    Send("registerStateC", keyedConfigurable(key, NewConfigurable(key)))

Router_UnregisterState(key) == Send("unregisterStateC", key)

Router_NewConfig(config) == Send("newConfigC", config)

Router_DeadConfig(tombstone) == Send("deadConfigC", tombstone)

Router_PushConfigs(configs) == Send("pushConfigsC", configs)

\* router.closeC <- 1 on the unbuffered channel: the caller waits in the send
\* until the router's goroutine receives.
Router_Close ==
    /\ MayCall
    /\ queues.closeC = << >>
    /\ queues' = [queues EXCEPT !.closeC = <<1>>, !.order = Append(@, "closeC")]
    /\ calls' = calls + 1
    /\ UNCHANGED <<storeVars, pollerVars, aofVars, last, heap, current, mutator, handlerLog, stateLog, reader>>

\* What a reader sees through a RouterState.
RouterState(state) == [Configs |-> state.Configs, KeyedStates |-> state.KeyedStates]

\* The routerState the local variable state of Router.State leads to, once
\* it has been loaded from Router.state: held is the address loaded, cur the
\* address Router.state holds by now.
StateOf_Reload(h, held, cur) == h[cur]

StateOf(h, held, cur) == h[held]

\* router.State(), up to state := router.get() and the read of state.Configs.
Router_State ==
    /\ mutator.pc # "panicked"
    /\ reader.op # "State.get"
    /\ reader' = [op |-> "State.get", held |-> current,
                  seen |-> [Configs |-> StateOf(heap, current, current).Configs]]
    /\ heap' = Collect(heap, {current, mutator.state})
    /\ UNCHANGED <<storeVars, pollerVars, aofVars, last, current, queues, mutator, handlerLog, stateLog, calls>>

\* router.State(), its read of state.KeyedStates and its return: the reader
\* keeps the RouterState it was handed.
Router_State_Return ==
    /\ mutator.pc # "panicked"
    /\ reader.op = "State.get"
    /\ reader' = [op |-> "State", held |-> reader.held,
                  seen |-> [Configs |-> reader.seen.Configs,
                            KeyedStates |->
                                StateOf(heap, reader.held, current).KeyedStates]]
    /\ UNCHANGED <<storeVars, pollerVars, aofVars, last, heap, current, queues, mutator, handlerLog, stateLog,
                   calls>>

\* router.PullConfigs(): the reader keeps the Configs it was handed.
Router_PullConfigs ==
    /\ mutator.pc # "panicked"
    /\ reader.op # "State.get"
    /\ reader' = [op |-> "PullConfigs", held |-> current,
                  seen |-> [Configs |-> Router_get.Configs]]
    /\ heap' = Collect(heap, {current, mutator.state})
    /\ UNCHANGED <<storeVars, pollerVars, aofVars, last, current, queues, mutator, handlerLog, stateLog, calls>>

\* The goroutine has taken msg from channel ch and processed it on the
\* routerState at address state of heap h; i messages of the batch are done,
\* and log holds the calls the registered states had received before.
Processed(h, state, ch, msg, i, log) ==
    \E out \in Process(h[state], ch, msg) :
        /\ last' = [op |-> "process", channel |-> ch, msg |-> msg,
                    before |-> h[state], out |-> out]
        /\ IF out.panic
           THEN /\ mutator' = [pc |-> "panicked", state |-> 0, i |-> 0]
                /\ heap' = Collect(h, {current, reader.held})
                /\ stateLog' = log
                /\ UNCHANGED handlerLog
           ELSE /\ mutator' = [pc |-> "processMore", state |-> state, i |-> i]
                /\ heap' = [h EXCEPT ![state] = out.state]
                /\ handlerLog' = Deliver(handlerLog, out.handlerCalls)
                /\ stateLog' = Deliver(log, out.stateCalls)

\* A receive of the select of Router.init, and the handler it runs up to its
\* call of processMore.
Select_InPlace(ch) ==
    /\ mutator.pc = "select"
    /\ queues[ch] # << >>
    /\ queues' = [queues EXCEPT ![ch] = Tail(@), !.order = Received(@, ch)]
    /\ Processed(heap, current, ch, Head(queues[ch]), 0, stateLog)
    /\ UNCHANGED <<storeVars, pollerVars, aofVars, current, reader, calls>>

Select(ch) ==
    /\ mutator.pc = "select"
    /\ queues[ch] # << >>
    /\ queues' = [queues EXCEPT ![ch] = Tail(@), !.order = Received(@, ch)]
    /\ \E copy \in WorkingCopy(heap, current) :
          Processed(copy.heap, copy.state, ch, Head(queues[ch]), 0,
                    Deliver(stateLog, copy.calls))
    /\ UNCHANGED <<storeVars, pollerVars, aofVars, current, reader, calls>>

\* case <-router.closeC: the goroutine returns.
SelectClose ==
    /\ mutator.pc = "select"
    /\ queues.closeC # << >>
    /\ queues' = [queues EXCEPT !.closeC = Tail(@), !.order = Received(@, "closeC")]
    /\ mutator' = [pc |-> "closed", state |-> 0, i |-> 0]
    /\ last' = [op |-> "close", before |-> queues.order]
    /\ UNCHANGED <<storeVars, pollerVars, aofVars, heap, current, handlerLog, stateLog, reader, calls>>

\* A round of processMore that receives a message however many it has taken.
ProcessMore_Unbounded(ch) ==
    /\ mutator.pc = "processMore"
    /\ queues[ch] # << >>
    /\ queues' = [queues EXCEPT ![ch] = Tail(@), !.order = Received(@, ch)]
    /\ Processed(heap, mutator.state, ch, Head(queues[ch]), mutator.i + 1, stateLog)
    /\ UNCHANGED <<storeVars, pollerVars, aofVars, current, reader, calls>>

\* One round of the loop of processMore that receives a message.
ProcessMore(ch) ==
    /\ mutator.pc = "processMore"
    /\ mutator.i < BatchLimit
    /\ queues[ch] # << >>
    /\ queues' = [queues EXCEPT ![ch] = Tail(@), !.order = Received(@, ch)]
    /\ Processed(heap, mutator.state, ch, Head(queues[ch]), mutator.i + 1, stateLog)
    /\ UNCHANGED <<storeVars, pollerVars, aofVars, current, reader, calls>>

\* processMore returns, on its default case or at the end of its loop, and
\* the handler publishes its routerState with router.set(state).
Publish ==
    /\ mutator.pc = "processMore"
    /\ mutator.i >= BatchLimit \/ \A ch \in Channels : queues[ch] = << >>
    /\ current' = mutator.state
    /\ heap' = Collect(heap, {mutator.state, reader.held})
    /\ mutator' = Idle
    /\ last' = [op |-> "set"]
    /\ UNCHANGED <<storeVars, pollerVars, aofVars, queues, handlerLog, stateLog, reader, calls>>

RouterNext ==
    \/ \E key \in StateKeys : Router_RegisterState(key)
    \/ \E key \in StateKeys : Router_UnregisterState(key)
    \/ \E config \in RouterConfigs : Router_NewConfig(config)
    \/ \E tombstone \in RouterTombstones : Router_DeadConfig(tombstone)
    \/ \E configs \in PushedConfigs : Router_PushConfigs(configs)
    \/ Router_Close
    \/ Router_State
    \/ Router_State_Return
    \/ Router_PullConfigs
    \/ \E ch \in Channels : Select(ch)
    \/ SelectClose
    \/ \E ch \in Channels : ProcessMore(ch)
    \/ Publish

SpecRouter == RouterInit /\ [][RouterNext]_vars

\* ------------------------------------------- Router.Configs, Router.States

\* The containers a Router is constructed with in Router.Configs.
SeedConfigs ==
    {ApplyAll(NewConfigs, <<[kind |-> "config", arg |-> Config(0, 0, 0, 0)],
                            [kind |-> "config", arg |-> Config(1, 0, 1, 0)],
                            [kind |-> "tombstone", arg |-> Tombstone(2, 0, 0)]>>),
     ApplyAll(NewConfigs, <<[kind |-> "config", arg |-> Config(2, 0, 0, 0)]>>)}

\* The keys of the maps a Router is constructed with in Router.States.
SeedStates == {{"o1"}, {"o0", "o1"}}

\* The loop of Router.init over Router.States that registers no state with
\* notify set.
RECURSIVE RegisterStates_Silent(_, _, _)
RegisterStates_Silent(state, keys, made) ==
    IF keys = {} THEN {[state |-> state, calls |-> made]}
    ELSE UNION {
            UNION {RegisterStates_Silent(r.state, keys \ {key}, made \o r.calls) :
                     r \in routerState_registerState(state, key, NewConfigurable(key),
                                                     FALSE)} :
            key \in keys}

\* The loop of Router.init over Router.States, in every order the range may
\* visit the map: state.RegisterState(key, obj) for each.
RECURSIVE RegisterStates(_, _, _)
RegisterStates(state, keys, made) ==
    IF keys = {} THEN {[state |-> state, calls |-> made]}
    ELSE UNION {
            UNION {RegisterStates(r.state, keys \ {key}, made \o r.calls) :
                     r \in routerState_RegisterState(state, key, NewConfigurable(key))} :
            key \in keys}

\* The routerState Router.init stores in Router.state, and the calls made on
\* the objects of Router.States.
Router_init(configs, keys, handlers) ==
    RegisterStates(newRouterState(configs, handlers), keys, << >>)

\* Router.init of a Router constructed with Configs and States set.
SeededInit ==
    \E configs \in SeedConfigs, keys \in SeedStates :
       \E r \in Router_init(configs, keys, RouterHandlers) :
          /\ stores = [s \in StoreNames |-> NewConfigs]
          /\ applied = {}
          /\ last = [op |-> "init", Configs |-> configs, States |-> keys]
          /\ heap = MapPut(EmptyMap, 1, r.state)
          /\ current = 1
          /\ queues = [ch \in Channels |-> << >>] @@ [closeC |-> << >>, order |-> << >>]
          /\ mutator = Idle
          /\ handlerLog = [h \in {RouterHandlers[i] : i \in 1 .. Len(RouterHandlers)} |->
                              << >>]
          /\ stateLog = Deliver([key \in StateKeys |-> << >>], r.calls)
          /\ reader = NoRead
          /\ calls = 0
          /\ poller = [pc |-> "none"]
          /\ aof = [pc |-> "none"]

SpecSeeded == SeededInit /\ [][RouterNext]_vars

\* ----------------------------------------------------------------- claims

\* The (type, ID) pairs a container holds an entry for.
Keys(configs) ==
    {<<typ, ID>> : typ \in DOMAIN configs.Types, ID \in Ids} \cap
    {k \in (DOMAIN configs.Types) \X Ids :
        k[2] \in (DOMAIN configs.Types[k[1]].Configs)
                 \cup (DOMAIN configs.Types[k[1]].Tombstones)}

\* The same keys, and for every key the same entry: kind, version and data.
StoreEqual(a, b) ==
    /\ Keys(a) = Keys(b)
    /\ \A k \in Keys(a) : Configs_Get(a, k[1], k[2]) = Configs_Get(b, k[1], k[2])

\* The entry a Get returned, without the data of the config.
Header(got) ==
    [live |-> got.Config # Nil, dead |-> got.Tombstone # Nil,
     Version |-> IF got.Config # Nil THEN got.Config.Version
                 ELSE IF got.Tombstone # Nil THEN got.Tombstone.Version ELSE 0]

\* The same keys, and for every key the same kind and version.
StoreEqualHeaders(a, b) ==
    /\ Keys(a) = Keys(b)
    /\ \A k \in Keys(a) :
          Header(Configs_Get(a, k[1], k[2])) = Header(Configs_Get(b, k[1], k[2]))

\* The version of the entry a Get returned.
ResidentVersion(got) ==
    IF got.Config # Nil THEN got.Config.Version ELSE got.Tombstone.Version

\* Every key but (typ, ID) has the same entry in the two containers.
SameElsewhere(a, b, typ, ID) ==
    /\ Keys(a) \ {<<typ, ID>>} = Keys(b) \ {<<typ, ID>>}
    /\ \A k \in Keys(a) \ {<<typ, ID>>} :
          Configs_Get(a, k[1], k[2]) = Configs_Get(b, k[1], k[2])

\* C1: NewConfig of a config of version v is accepted iff its ID has no entry
\* or v is strictly greater than the version of the entry (config or
\* tombstone).  Accepted, the config is the live entry, the ID has no
\* tombstone and the config replaced, if any, is returned; rejected, the
\* container is unchanged and nothing is returned.
C1_InsertConfigRule ==
    [][last'.op = "NewConfig" =>
        LET s == last'.target
            c == last'.arg
            before == Configs_Get(stores[s], c.Type, c.ID)
            after == Configs_Get(stores'[s], c.Type, c.ID)
        IN /\ last'.isNew <=> (~before.ok \/ c.Version > ResidentVersion(before))
           /\ last'.isNew =>
                /\ after.ok /\ after.Config = c /\ after.Tombstone = Nil
                /\ c.ID \notin DOMAIN stores'[s].Types[c.Type].Tombstones
                /\ last'.oldConfig = before.Config
                /\ SameElsewhere(stores[s], stores'[s], c.Type, c.ID)
           /\ ~last'.isNew => (stores'[s] = stores[s] /\ last'.oldConfig = Nil)
           /\ stores'[Other(s)] = stores[Other(s)]]_vars

\* A config was accepted and replaced a live config of lower version.
C1_Witness ==
    /\ last.op = "NewConfig" /\ last.isNew
    /\ last.oldConfig # Nil /\ last.oldConfig.Version < last.arg.Version

\* C2: DeadConfig of a tombstone of version v is accepted iff its ID has no
\* entry, or a live config of version <= v, or a tombstone of version < v.
\* Accepted, the tombstone is the entry and the live config, if any, is
\* removed and returned; rejected, the container is unchanged.  A config of
\* version v is rejected where a tombstone of version v is the entry.
C2_InsertTombstoneRule ==
    [][/\ last'.op = "DeadConfig" =>
            LET s == last'.target
                t == last'.arg
                before == Configs_Get(stores[s], t.Type, t.ID)
                after == Configs_Get(stores'[s], t.Type, t.ID)
            IN /\ last'.isNew <=>
                    \/ ~before.ok
                    \/ before.Config # Nil /\ before.Config.Version <= t.Version
                    \/ before.Tombstone # Nil /\ before.Tombstone.Version < t.Version
               /\ last'.isNew =>
                    /\ after.ok /\ after.Tombstone = t /\ after.Config = Nil
                    /\ t.ID \notin DOMAIN stores'[s].Types[t.Type].Configs
                    /\ last'.oldConfig = before.Config
                    /\ SameElsewhere(stores[s], stores'[s], t.Type, t.ID)
               /\ ~last'.isNew => (stores'[s] = stores[s] /\ last'.oldConfig = Nil)
               /\ stores'[Other(s)] = stores[Other(s)]
       /\ last'.op = "NewConfig" =>
            LET before == Configs_Get(stores[last'.target], last'.arg.Type, last'.arg.ID)
            IN (before.Tombstone # Nil /\ before.Tombstone.Version = last'.arg.Version)
                  => ~last'.isNew]_vars

\* A tombstone of version v was accepted and replaced the live config of
\* version v.
C2_Witness ==
    /\ last.op = "DeadConfig" /\ last.isNew
    /\ last.oldConfig # Nil /\ last.oldConfig.Version = last.arg.Version

\* C3: in every container reached by NewConfig, DeadConfig, Merge and Copy,
\* no ID is both in the Configs map and in the Tombstones map of its type.
C3_SingleState ==
    \A s \in StoreNames : \A typ \in DOMAIN stores[s].Types :
        (DOMAIN stores[s].Types[typ].Configs)
            \cap (DOMAIN stores[s].Types[typ].Tombstones) = {}

\* A Merge accepted a config where a tombstone was the entry, or a tombstone
\* where a config was.
C3_Witness ==
    /\ last.op = "Merge"
    /\ \E a \in applied :
          /\ a.target = last.target
          /\ \/ a.kind = "tombstone" /\ \E i \in 1 .. Len(last.newConfigs) :
                    last.newConfigs[i].Type = a.arg.Type /\ last.newConfigs[i].ID = a.arg.ID
                    /\ last.newConfigs[i].Version > a.arg.Version
             \/ a.kind = "config" /\ \E i \in 1 .. Len(last.deadConfigs) :
                    last.deadConfigs[i].Type = a.arg.Type /\ last.deadConfigs[i].ID = a.arg.ID
                    /\ last.deadConfigs[i].Version >= a.arg.Version

\* C4: over a NewConfig, DeadConfig or Merge step the version of the entry
\* of a (type, ID) never decreases, and where the entry changes at an equal
\* version a tombstone has replaced a live config.
C4_Monotonic ==
    [][last'.op \in {"NewConfig", "DeadConfig", "Merge"} =>
        \A s \in StoreNames : \A k \in Keys(stores[s]) :
            LET before == Configs_Get(stores[s], k[1], k[2])
                after == Configs_Get(stores'[s], k[1], k[2])
            IN /\ after.ok
               /\ ResidentVersion(after) >= ResidentVersion(before)
               /\ (ResidentVersion(after) = ResidentVersion(before) /\ after # before)
                    => (before.Config # Nil /\ after.Tombstone # Nil)]_vars

\* A Merge raised the version of an entry that was there before.
C4_Witness ==
    /\ last.op = "Merge"
    /\ \E a \in applied :
          /\ a.target = last.target
          /\ \E i \in 1 .. Len(last.newConfigs) :
                last.newConfigs[i].Type = a.arg.Type /\ last.newConfigs[i].ID = a.arg.ID
                /\ last.newConfigs[i].Version > a.arg.Version

\* C5: for two containers A and B, A.Copy().Merge(B) and B.Copy().Merge(A)
\* are equal: the same keys, and for every key the same kind, version and
\* data.
C5_MergeCommutes ==
    (last.op = "CopyMerge" /\ last.other # last.target) =>
        StoreEqual(last.ab.state, last.ba.state)

\* The two merges of C5 agree on the kind and the version of every entry:
\* where they differ, they differ in the data of a config.
MergeCommutesOnHeaders ==
    (last.op = "CopyMerge" /\ last.other # last.target) =>
        StoreEqualHeaders(last.ab.state, last.ba.state)

\* C6: A.Copy().Merge(A) equals A and accepts nothing; a mutation applied
\* again, or one of a version lower than the entry's, returns isNew = false
\* and leaves the container unchanged.
C6_Idempotent ==
    [][/\ (last'.op = "CopyMerge" /\ last'.other = last'.target) =>
            /\ StoreEqual(last'.ab.state, stores'[last'.target])
            /\ last'.ab.newConfigs = << >>
            /\ last'.ab.deadConfigs = << >>
       /\ last'.op \in {"NewConfig", "DeadConfig"} =>
            LET s == last'.target
                m == last'.arg
                kind == IF last'.op = "NewConfig" THEN "config" ELSE "tombstone"
                before == Configs_Get(stores[s], m.Type, m.ID)
            IN (\/ Applied(s, kind, m) \in applied
                \/ before.ok /\ m.Version < ResidentVersion(before))
                  => (~last'.isNew /\ stores' = stores)]_vars

\* A container of two entries was merged into a copy of itself.
C6_Witness ==
    /\ last.op = "CopyMerge" /\ last.other = last.target
    /\ Configs_Len(stores[last.target]) >= 2

\* C7: a set of mutations applied to a container ends in the same container
\* whatever the order they are applied in.
C7_OrderIndependent ==
    last.op = "Replay" => \A f, g \in last.finals : StoreEqual(f, g)

\* The orders of C7 agree on the kind and the version of every entry.
OrderIndependentOnHeaders ==
    last.op = "Replay" => \A f, g \in last.finals : StoreEqualHeaders(f, g)

\* A step in which the router's goroutine receives a message and processes it.
ProcessStep ==
    \E ch \in Channels : queues[ch] # << >> /\ queues'[ch] = Tail(queues[ch])

\* The mutations a message asks for: one for a config or a tombstone, one per
\* entry for a container pushed, none for a registration.
Elements(ch, msg) ==
    CASE ch = "newConfigC" -> {[kind |-> "config", arg |-> msg]}
      [] ch = "deadConfigC" -> {[kind |-> "tombstone", arg |-> msg]}
      [] ch = "pushConfigsC" -> Entries(msg)
      [] OTHER -> {}

\* The merge rule, read off the entry (typ, ID) of a container: whether the
\* container accepts mutation m.
Accepts(configs, m) ==
    LET got == IF <<m.arg.Type, m.arg.ID>> \in Keys(configs)
               THEN Configs_Get(configs, m.arg.Type, m.arg.ID)
               ELSE [Config |-> Nil, Tombstone |-> Nil, ok |-> FALSE]
    IN \/ ~got.ok
       \/ m.arg.Version > ResidentVersion(got)
       \/ m.kind = "tombstone" /\ got.Config # Nil /\ m.arg.Version = got.Config.Version

\* The live config mutation m replaces in a container, or Nil.
Replaced(configs, m) ==
    IF <<m.arg.Type, m.arg.ID>> \in Keys(configs)
    THEN Configs_Get(configs, m.arg.Type, m.arg.ID).Config
    ELSE Nil

\* A declared list of types lets typ through: it is empty or holds typ.
Allows(types, typ) ==
    Len(types) = 0 \/ \E i \in 1 .. Len(types) : types[i] = typ

\* The call a handler receives for mutation m.
HandlerCall(h, m) ==
    Call(h, IF m.kind = "config" THEN "NewConfig" ELSE "DeadConfig", m.arg)

\* The calls a log gained in a step.
Gained(before, after) == SubSeq(after, Len(before) + 1, Len(after))

Range(seq) == {seq[i] : i \in 1 .. Len(seq)}

HandlerNames == Range(RouterHandlers)

\* The container that results from the calls a handler received, replayed
\* into an empty one.
Replayed(log) ==
    ApplyAll(NewConfigs,
             [i \in 1 .. Len(log) |->
                 [kind |-> IF log[i].kind = "NewConfig" THEN "config" ELSE "tombstone",
                  arg |-> log[i].arg]])

\* C8: what a reader obtained from State() or PullConfigs() is the same
\* whatever the router processes afterwards: the object it holds still has
\* the configs and the registered states it had when it was read.  The object
\* published once the router has nothing in hand holds the new contents: the
\* container that results from every mutation accepted so far.
C8_SnapshotImmutable ==
    /\ reader.held # 0 =>
          /\ reader.held \in DOMAIN heap
          /\ heap[reader.held].Configs = reader.seen.Configs
          /\ reader.op = "State" =>
                heap[reader.held].KeyedStates = reader.seen.KeyedStates
    /\ mutator.pc \in {"select", "closed"} =>
          StoreEqual(Router_get.Configs, Replayed(handlerLog["H3"]))

\* A reader holds a RouterState, and the router has since published another
\* with other configs and other registered states.
C8_Witness ==
    /\ reader.op = "State" /\ reader.held # current
    /\ mutator.pc = "select"
    /\ ~StoreEqual(Router_get.Configs, reader.seen.Configs)
    /\ DOMAIN Router_get.KeyedStates # DOMAIN reader.seen.KeyedStates
    /\ Keys(reader.seen.Configs) # {}

\* C9: for every config or tombstone the router processes, alone or as an
\* entry of a container pushed, each handler whose types let it through
\* receives NewConfig / DeadConfig for it exactly once if the store accepted
\* it, and nothing if the store rejected it; a handler receives nothing else.
C9_NotifiedIffAccepted ==
    [][ProcessStep =>
        LET msgs == Elements(last'.channel, last'.msg)
            store == last'.before.Configs
        IN \A h \in HandlerNames :
              LET gained == Gained(handlerLog[h], handlerLog'[h])
                  due == {HandlerCall(h, m) :
                            m \in {n \in msgs : /\ Accepts(store, n)
                                                /\ Allows(HandlerTypes(h), n.arg.Type)}}
              IN /\ Range(gained) = due
                 /\ Len(gained) = Cardinality(due)]_vars

\* The router processed a pushed container of which the store accepted one
\* entry and rejected another, and a handler was told of the accepted one.
C9_Witness ==
    /\ last.op = "process" /\ last.channel = "pushConfigsC"
    /\ \E m, n \in Entries(last.msg) :
          /\ Accepts(last.before.Configs, m)
          /\ ~Accepts(last.before.Configs, n)
          /\ handlerLog["H2"] # << >>
          /\ handlerLog["H2"][Len(handlerLog["H2"])] = HandlerCall("H2", m)

\* The call a registered state receives when the store accepts mutation m:
\* NewConfig of a config; DeadConfig of the live config a tombstone removes.
StateCalls(key, store, m) ==
    IF m.kind = "config"
    THEN (IF Replaced(store, m) # Nil
          THEN {Call(key, "DeadConfig", Replaced(store, m))} ELSE {})
         \cup {Call(key, "NewConfig", m.arg)}
    ELSE IF Replaced(store, m) # Nil
         THEN {Call(key, "DeadConfig", Replaced(store, m))} ELSE {}

\* The handlers told of something in a step.
Told == {h \in HandlerNames : handlerLog'[h] # handlerLog[h]}

\* C10: an accepted mutation reaches a handler, and a registered state, whose
\* declared list of types is not empty only if its type is in the list, and
\* reaches every one whose list is empty or holds its type.  With H1 = {t1},
\* H2 = {t1, t2} and H3 not Routable, an accepted config of type t0 reaches
\* H3 only, one of type t1 reaches H1, H2 and H3, one of type t2 reaches H2
\* and H3.  Nothing a handler or a state registered under a key has ever
\* received is of a type its list excludes.
C10_RoutedByType ==
    [][/\ \A h \in HandlerNames : \A i \in 1 .. Len(handlerLog'[h]) :
             Allows(HandlerTypes(h), handlerLog'[h][i].arg.Type)
       /\ \A key \in StateKeys : \A i \in 1 .. Len(stateLog'[key]) :
             Allows(StateTypes(key), stateLog'[key][i].arg.Type)
       /\ ProcessStep =>
            LET store == last'.before.Configs
                accepted == {m \in Elements(last'.channel, last'.msg) : Accepts(store, m)}
            IN /\ \A m \in accepted :
                    /\ \A h \in HandlerNames :
                          HandlerCall(h, m) \in Range(Gained(handlerLog[h], handlerLog'[h]))
                             <=> Allows(HandlerTypes(h), m.arg.Type)
                    /\ \A key \in DOMAIN last'.before.KeyedStates :
                          \A call \in StateCalls(key, store, m) :
                             call \in Range(Gained(stateLog[key], stateLog'[key]))
                                <=> Allows(StateTypes(key), m.arg.Type)
               /\ (last'.channel = "newConfigC" /\ accepted # {}) =>
                    Told = CASE last'.msg.Type = 0 -> {"H3"}
                             [] last'.msg.Type = 1 -> {"H1", "H2", "H3"}
                             [] last'.msg.Type = 2 -> {"H2", "H3"}
                             [] OTHER -> Told]_vars

\* Each of the three cases has happened: H1 has been told of an entry of type
\* t1, H2 of one of type t2, H3 of one of type t0; and the state registered
\* under "o1", whose list is [t1], has been told of a config.
C10_Witness ==
    /\ \E i \in 1 .. Len(handlerLog["H3"]) : handlerLog["H3"][i].arg.Type = 0
    /\ \E i \in 1 .. Len(handlerLog["H2"]) : handlerLog["H2"][i].arg.Type = 2
    /\ \E i \in 1 .. Len(handlerLog["H1"]) : handlerLog["H1"][i].arg.Type = 1
    /\ stateLog["o1"] # << >>

\* The channel of the earliest pending send of a message.
Earliest(order) == Head(SelectSeq(order, LAMBDA ch : ch # "closeC"))

\* C11: the router's goroutine applies the operations in the order they were
\* enqueued: the message it receives is the one of the earliest pending send,
\* whatever the kinds of the operations.
C11_EnqueueOrder ==
    [][ProcessStep => last'.channel = Earliest(queues.order)]_vars

\* C12: the RouterState a call of State() returned pairs the Configs and the
\* KeyedStates of one routerState, a published one and not the one a batch is
\* being applied to, and the two agree: each registered state holds the live
\* configs of the store that its types let through.
C12_ConsistentView ==
    reader.op = "State" =>
        /\ reader.held \in DOMAIN heap
        /\ reader.seen = RouterState(heap[reader.held])
        /\ mutator.pc = "processMore" => reader.held # mutator.state
        /\ \A key \in DOMAIN reader.seen.KeyedStates :
              reader.seen.KeyedStates[key].Data =
                 {c \in LiveConfigs(reader.seen.Configs) : Allows(StateTypes(key), c.Type)}

\* A reader holds a RouterState with a registered state that has been told of
\* a config, while the router applies a batch that changes the store.
C12_Witness ==
    /\ reader.op = "State"
    /\ mutator.pc = "processMore"
    /\ \E key \in DOMAIN reader.seen.KeyedStates :
          reader.seen.KeyedStates[key].Data # {}
    /\ ~StoreEqual(heap[mutator.state].Configs, reader.seen.Configs)

\* C13: when the store accepts NewConfig(C) from the router and C replaces a
\* live config O of the same ID, every registered state whose types let C
\* through receives DeadConfig(O) and, right after it, NewConfig(C); when C
\* replaces nothing live (no entry, or a tombstone) it receives NewConfig(C)
\* only.
C13_DeadThenNew ==
    [][(ProcessStep /\ last'.channel = "newConfigC") =>
        LET m == [kind |-> "config", arg |-> last'.msg]
            store == last'.before.Configs
            old == Replaced(store, m)
        IN Accepts(store, m) =>
              \A key \in DOMAIN last'.before.KeyedStates :
                 Allows(StateTypes(key), m.arg.Type) =>
                    Gained(stateLog[key], stateLog'[key]) =
                       IF old # Nil
                       THEN <<Call(key, "DeadConfig", old), Call(key, "NewConfig", m.arg)>>
                       ELSE <<Call(key, "NewConfig", m.arg)>>]_vars

\* The state registered under "o0" before the mutations has received, for
\* NewConfig(a, 0) then NewConfig(a, 1): NewConfig(a, 0), DeadConfig(a, 0),
\* NewConfig(a, 1).
C13_Witness ==
    \E t \in RouterTypes, a \in Ids :
        stateLog["o0"] = <<Call("o0", "NewConfig", Config(t, a, 0, 0)),
                           Call("o0", "DeadConfig", Config(t, a, 0, 0)),
                           Call("o0", "NewConfig", Config(t, a, 1, 0))>>

\* The live configs of a container that a list of types lets through.
Matching(configs, types) == {c \in LiveConfigs(configs) : Allows(types, c.Type)}

\* C14: a state registered through the router receives NewConfig exactly once
\* for each live config of the store its types let through, and nothing for
\* a tombstone or for a config of another type; the states registered before
\* receive nothing then, and the copy of the routerState the router makes
\* replays nothing: what a state receives when a message is processed is
\* called for by an entry of the message that the store accepted.
C14_ReplayOnRegister ==
    [][ProcessStep =>
        LET store == last'.before.Configs
            accepted == {m \in Elements(last'.channel, last'.msg) : Accepts(store, m)}
        IN \A key \in StateKeys :
              LET gained == Gained(stateLog[key], stateLog'[key])
                  due == {Call(key, "NewConfig", c) : c \in Matching(store, StateTypes(key))}
              IN IF /\ last'.channel = "registerStateC"
                    /\ ~last'.out.panic
                    /\ last'.msg.Key = key
                 THEN Range(gained) = due /\ Len(gained) = Cardinality(due)
                 ELSE Range(gained) \subseteq
                         UNION {StateCalls(key, store, m) : m \in accepted}]_vars

\* The state "o1", of types [t1], was registered when the store held a live
\* config of type t1 and an entry of another type or a tombstone, and has
\* received NewConfig of the config of type t1 and nothing else.
C14_Witness ==
    /\ last.op = "process" /\ last.channel = "registerStateC"
    /\ last.msg.Key = "o1" /\ ~last.out.panic
    /\ Matching(last.before.Configs, StateTypes("o1")) # {}
    /\ Cardinality(Keys(last.before.Configs)) > 1
    /\ Len(stateLog["o1"]) = 1

\* The sends of messages made before Close was called, among the pending
\* sends of an order that holds the send of Close.
BeforeClose(order) ==
    LET i == CHOOSE j \in 1 .. Len(order) : order[j] = "closeC"
    IN SubSeq(order, 1, i - 1)

\* C20: when the router's goroutine exits on Close, every message enqueued
\* before Close was called has been received and applied: none is pending.
C20_CloseDrains ==
    last.op = "close" => BeforeClose(last.before) = << >>

\* ----------------------------------------------------------------- Poller

\* Two routers, "A" and "B", without handlers, and a Poller with Local = "B"
\* and Remote = "A": stores[r] is the Configs router r has published,
\* queues[r] holds the channels of router r.

\* The number of NewConfig and DeadConfig calls producers make on the routers.
MaxMutations == 2

\* The goroutines Start can have launched, and the callers of Start and Stop.
Tasks == {1, 2}
Callers == {1, 2}

\* The number of calls of Start and Stop.
MaxControls == 2

PollerConfigs == {Config(0, i, v, d) : i \in Ids, v \in Versions, d \in Payloads}
PollerTombstones == {Tombstone(0, i, v) : i \in Ids, v \in Versions}

\* Router.QueueSize of the two routers.
PollerQueueSize == 1

PollerChannels == {"newConfigC", "deadConfigC", "pushConfigsC"}

\* The steps of Poller.poll, in order.
poll_PullFirst(Push, Pull) ==
    (IF Pull THEN <<"pull">> ELSE << >>) \o (IF Push THEN <<"push">> ELSE << >>)

poll(Push, Pull) ==
    (IF Push THEN <<"push">> ELSE << >>) \o (IF Pull THEN <<"pull">> ELSE << >>)

\* client.PullConfigs(): what the router has published; nil for a NullClient.
Client_PullConfigs(client) == IF client = "null" THEN Nil ELSE stores[client]

\* What a step of Poller.poll sends, and to which client.
pollStep_Reversed(step, Local, Remote) ==
    IF step = "push"
    THEN [router |-> Local, configs |-> Client_PullConfigs(Remote)]
    ELSE [router |-> Remote, configs |-> Client_PullConfigs(Local)]

pollStep(step, Local, Remote) ==
    IF step = "push"
    THEN [router |-> Remote, configs |-> Client_PullConfigs(Local)]
    ELSE [router |-> Local, configs |-> Client_PullConfigs(Remote)]

\* A goroutine of the poller: where it is, the steps of its poll() still to
\* do and done, and what the remote router had published when the pull step
\* of this poll() ran.
NoTask == [pc |-> "none", todo |-> << >>, done |-> << >>, remote |-> Nil]

\* Two routers after Router.init, and a Poller constructed with Push and/or
\* Pull set, not started.
PollerInit ==
    /\ stores = [r \in StoreNames |-> NewConfigs]
    /\ applied = {}
    /\ last = [op |-> "init"]
    /\ heap = EmptyMap
    /\ current = 0
    /\ queues = [r \in StoreNames |-> [ch \in PollerChannels |-> << >>]]
    /\ mutator = [pc |-> "none"]
    /\ handlerLog = EmptyMap
    /\ stateLog = EmptyMap
    /\ reader = [held |-> 0]
    /\ calls = 0
    /\ \E Push, Pull \in BOOLEAN :
          /\ Push \/ Pull
          /\ poller = [Local |-> "B", Remote |-> "A", Push |-> Push, Pull |-> Pull,
                       isRunning |-> FALSE,
                       tasks |-> [t \in Tasks |-> NoTask],
                       callers |-> [c \in Callers |-> [pc |-> "idle"]],
                       controls |-> 0]
    /\ aof = [pc |-> "none"]

pollerRest == <<heap, current, mutator, handlerLog, stateLog, reader>>

\* router.NewConfig(config) or router.DeadConfig(tombstone) on router r: the
\* send on the channel.
Poller_Mutate(r, ch, msg) ==
    /\ calls < MaxMutations
    /\ Len(queues[r][ch]) < PollerQueueSize
    /\ queues' = [queues EXCEPT ![r][ch] = Append(@, msg)]
    /\ calls' = calls + 1
    /\ applied' = applied \cup {[target |-> r]}
    /\ UNCHANGED <<stores, last, poller, pollerRest, aofVars>>

\* The goroutine of router r receives a message from channel ch, applies it to
\* a copy of its routerState and publishes the copy.  A batch of processMore
\* is several of these steps, with nothing read from the router in between.
Poller_RouterStep(r, ch) ==
    /\ mutator.pc # "panicked"
    /\ queues[r][ch] # << >>
    /\ queues' = [queues EXCEPT ![r][ch] = Tail(@)]
    /\ \E copy \in routerState_Copy(newRouterState(stores[r], << >>)) :
          \E out \in Process(copy.state, ch, Head(queues[r][ch])) :
             IF out.panic
             THEN stores' = stores /\ mutator' = [pc |-> "panicked", router |-> r]
             ELSE /\ stores' = [stores EXCEPT ![r] = out.state.Configs]
                  /\ mutator' = mutator
    /\ UNCHANGED <<applied, last, calls, poller, heap, current, handlerLog, stateLog, reader,
                   aofVars>>

MayControl(c) == poller.callers[c].pc = "idle" /\ poller.controls < MaxControls

\* poller.Start() by caller c, up to its read of poller.isRunning: the call
\* returns if the poller is marked running.
Poller_Start(c) ==
    /\ MayControl(c)
    /\ poller' = [poller EXCEPT
                    !.controls = @ + 1,
                    !.callers[c].pc = IF poller.isRunning THEN "idle" ELSE "Start.set"]
    /\ UNCHANGED <<stores, applied, last, queues, calls, pollerRest, aofVars>>

\* The rest of poller.Start(): poller.isRunning = true and the go statement.
\* The goroutine begins with poller.poll().
Poller_Start_Go(c) ==
    /\ poller.callers[c].pc = "Start.set"
    /\ \E t \in Tasks :
          /\ poller.tasks[t].pc \in {"none", "exited"}
          /\ \A u \in Tasks : u < t => poller.tasks[u].pc \notin {"none", "exited"}
          /\ poller' = [poller EXCEPT
                          !.isRunning = TRUE,
                          !.callers[c].pc = "idle",
                          !.tasks[t] = [pc |-> "poll",
                                        todo |-> poll(poller.Push, poller.Pull),
                                        done |-> << >>,
                                        remote |-> Nil]]
    /\ UNCHANGED <<stores, applied, last, queues, calls, pollerRest, aofVars>>

\* A step of poller.poll() in goroutine t: a PullConfigs of one router and
\* the PushConfigs of what it returned on the other, which waits while the
\* channel is full.  After the last step the goroutine is at its select.
Poller_poll(t) ==
    /\ poller.tasks[t].pc = "poll"
    /\ LET task == poller.tasks[t]
           step == pollStep(Head(task.todo), poller.Local, poller.Remote)
       IN /\ step.router # "null" => Len(queues[step.router].pushConfigsC) < PollerQueueSize
          /\ queues' = IF step.router = "null" THEN queues
                       ELSE [queues EXCEPT ![step.router].pushConfigsC =
                                              Append(@, step.configs)]
          /\ poller' = [poller EXCEPT
                          !.tasks[t].todo = Tail(@),
                          !.tasks[t].done = Append(@, Head(task.todo)),
                          !.tasks[t].remote = IF Head(task.todo) = "pull"
                                              THEN Client_PullConfigs(poller.Remote)
                                              ELSE @,
                          !.tasks[t].pc = IF Tail(task.todo) = << >> THEN "select" ELSE "poll"]
    /\ UNCHANGED <<stores, applied, last, calls, pollerRest, aofVars>>

\* case <-tickC: goroutine t begins another poller.poll().
Poller_Tick(t) ==
    /\ poller.tasks[t].pc = "select"
    /\ poller' = [poller EXCEPT
                    !.tasks[t] = [pc |-> "poll",
                                  todo |-> poll(poller.Push, poller.Pull),
                                  done |-> << >>,
                                  remote |-> Nil]]
    /\ UNCHANGED <<stores, applied, last, queues, calls, pollerRest, aofVars>>

\* poller.Stop() by caller c, up to its read of poller.isRunning: the call
\* returns if the poller is not marked running, and sends on stopC otherwise.
Poller_Stop(c) ==
    /\ MayControl(c)
    /\ poller' = [poller EXCEPT
                    !.controls = @ + 1,
                    !.callers[c].pc = IF poller.isRunning THEN "Stop.send" ELSE "idle"]
    /\ UNCHANGED <<stores, applied, last, queues, calls, pollerRest, aofVars>>

\* case <-poller.stopC in goroutine t: the send of caller c on the unbuffered
\* channel completes, and Stop returns.
Poller_Stop_Return(c, t) ==
    /\ poller.callers[c].pc = "Stop.send"
    /\ poller.tasks[t].pc = "select"
    /\ poller' = [poller EXCEPT !.callers[c].pc = "idle", !.tasks[t].pc = "stopping"]
    /\ UNCHANGED <<stores, applied, last, queues, calls, pollerRest, aofVars>>

\* poller.isRunning = false and the return of goroutine t.
Poller_Exit(t) ==
    /\ poller.tasks[t].pc = "stopping"
    /\ poller' = [poller EXCEPT !.isRunning = FALSE, !.tasks[t].pc = "exited"]
    /\ UNCHANGED <<stores, applied, last, queues, calls, pollerRest, aofVars>>

PollerNext ==
    \/ \E r \in StoreNames, config \in PollerConfigs : Poller_Mutate(r, "newConfigC", config)
    \/ \E r \in StoreNames, tombstone \in PollerTombstones :
          Poller_Mutate(r, "deadConfigC", tombstone)
    \/ \E r \in StoreNames, ch \in PollerChannels : Poller_RouterStep(r, ch)
    \/ \E c \in Callers : Poller_Start(c)
    \/ \E c \in Callers : Poller_Start_Go(c)
    \/ \E t \in Tasks : Poller_poll(t)
    \/ \E t \in Tasks : Poller_Tick(t)
    \/ \E c \in Callers : Poller_Stop(c)
    \/ \E c \in Callers, t \in Tasks : Poller_Stop_Return(c, t)
    \/ \E t \in Tasks : Poller_Exit(t)

SpecPoller == PollerInit /\ [][PollerNext]_vars

\* The routers' goroutines and the poller's goroutines keep running, and the
\* ticker keeps ticking.
PollerFairness ==
    /\ \A r \in StoreNames, ch \in PollerChannels : WF_vars(Poller_RouterStep(r, ch))
    /\ \A t \in Tasks : SF_vars(Poller_poll(t))
    /\ \A t \in Tasks : WF_vars(Poller_Tick(t))
    /\ \A t \in Tasks : WF_vars(Poller_Exit(t))
    /\ \A c \in Callers : WF_vars(Poller_Start_Go(c))

\* The two routers linked in both directions: the poller pushes and pulls.
PollerInitBoth == PollerInit /\ poller.Push /\ poller.Pull

SpecPollerFair == PollerInitBoth /\ [][PollerNext]_vars /\ PollerFairness

\* The goroutines of the poller that have been launched and have not returned.
LiveTasks == {t \in Tasks : poller.tasks[t].pc \in {"poll", "select", "stopping"}}

\* C15: with a poller in pull mode only between the remote router A and the
\* local router B, and no mutation made on B: once a poll() whose pull step
\* ran after the mutations of A were applied has completed, and B has
\* processed what it was sent, the store of B equals the store of A.
C15_AntiEntropy ==
    \A t \in Tasks :
        (/\ poller.Pull /\ ~poller.Push
         /\ [target |-> poller.Local] \notin applied
         /\ poller.tasks[t].pc = "select"
         /\ poller.tasks[t].remote = stores[poller.Remote]
         /\ \A ch \in PollerChannels : queues[poller.Remote][ch] = << >>
         /\ queues[poller.Local].pushConfigsC = << >>)
        => StoreEqual(stores[poller.Local], stores[poller.Remote])

\* Two mutations were applied to A, which holds a tombstone, and a poll() in
\* pull mode that came after them has been processed by B.
C15_Witness ==
    /\ poller.Pull /\ ~poller.Push
    /\ applied = {[target |-> "A"]} /\ calls = MaxMutations
    /\ DeadConfigs(stores["A"]) # {}
    /\ \E t \in Tasks : /\ poller.tasks[t].pc = "select"
                         /\ poller.tasks[t].remote = stores["A"]
    /\ \A r \in StoreNames, ch \in PollerChannels : queues[r][ch] = << >>
    /\ StoreEqual(stores["B"], stores["A"])

\* The poller keeps polling in both directions.
Polling ==
    /\ poller.Push /\ poller.Pull
    /\ \E t \in Tasks : poller.tasks[t].pc \in {"poll", "select"}

\* C16: with a poller that keeps delivering the store of each router to the
\* other, once the producers have stopped the two stores become equal and
\* stay equal.
C16_Converges ==
    <>[]Polling => <>[]StoreEqual(stores["A"], stores["B"])

\* The two stores come to agree, for good, on the kind and the version of
\* every entry.
ConvergesOnHeaders ==
    <>[]Polling => <>[]StoreEqualHeaders(stores["A"], stores["B"])

\* The steps a poll() is to perform: the push step if Push is set and then
\* the pull step if Pull is set.
Cycle ==
    IF poller.Push /\ poller.Pull THEN <<"push", "pull">>
    ELSE IF poller.Push THEN <<"push">> ELSE <<"pull">>

\* C17: a goroutine launched by Start begins a poll() at once and another at
\* every tick until it is stopped; a poll() performs
\* Remote.PushConfigs(Local.PullConfigs()) if Push is set and then
\* Local.PushConfigs(Remote.PullConfigs()) if Pull is set, and nothing else.
C17_PollCycle ==
    [][\A t \in Tasks :
          LET a == poller.tasks[t]
              b == poller'.tasks[t]
              Local == poller.Local
              Remote == poller.Remote
          IN /\ (a.pc \in {"none", "exited"} /\ b.pc # a.pc) =>
                    (b.pc = "poll" /\ b.done = << >>)
             /\ (a.pc = "select" /\ b.pc = "poll") => b.done = << >>
             /\ (a.pc = "poll" /\ b.pc = "select") => b.done = Cycle
             /\ (a.pc = "poll" /\ b # a) =>
                    /\ Len(b.done) = Len(a.done) + 1
                    /\ b.done = SubSeq(Cycle, 1, Len(b.done))
                    /\ b.pc = IF b.done = Cycle THEN "select" ELSE "poll"
                    /\ queues' =
                         IF b.done[Len(b.done)] = "push"
                         THEN [queues EXCEPT
                                 ![Remote].pushConfigsC = Append(@, stores[Local])]
                         ELSE [queues EXCEPT
                                 ![Local].pushConfigsC = Append(@, stores[Remote])]
             /\ a.pc \in {"stopping", "exited"} => b.done = a.done \/ b.pc = "poll"
             /\ \A r \in StoreNames :
                    Len(queues'[r].pushConfigsC) > Len(queues[r].pushConfigsC) =>
                       \E u \in Tasks : /\ poller.tasks[u].pc = "poll"
                                        /\ poller'.tasks[u] # poller.tasks[u]]_vars

\* A poll() with Push and Pull set has completed, push step first, and what
\* it sent is in the channels of the two routers.
C17_Witness ==
    /\ \E t \in Tasks : /\ poller.tasks[t].pc = "select"
                         /\ poller.tasks[t].done = <<"push", "pull">>
    /\ queues["A"].pushConfigsC # << >>
    /\ queues["B"].pushConfigsC # << >>

\* C18: Start on a poller that is running launches nothing, also when two
\* calls of Start overlap: the poller never has more than one goroutine.
C18_SingleTask == Cardinality(LiveTasks) <= 1

\* Start by a caller that finds the poller marked running launches nothing.
StartWhileRunningIsNoOp ==
    [][\A c \in Callers :
          (poller.callers[c].pc = "idle" /\ poller.isRunning
           /\ poller'.controls # poller.controls) =>
              (poller'.tasks = poller.tasks /\ poller'.callers[c].pc \in {"idle", "Stop.send"})]_vars

\* C19: when Stop returns on a running poller, the goroutine has returned and
\* the poller is not marked running any more.
C19_StopWaits ==
    [][\A c \in Callers, t \in Tasks :
          (/\ poller.callers[c].pc = "Stop.send" /\ poller'.callers[c].pc = "idle"
           /\ poller.tasks[t].pc = "select" /\ poller'.tasks[t].pc # "select") =>
              (poller'.tasks[t].pc = "exited" /\ ~poller'.isRunning)]_vars

\* A goroutine that has received from stopC begins no poll() and sends
\* nothing, and Stop on a poller not marked running returns at once.
StopEndsPolling ==
    [][/\ \A t \in Tasks :
             poller.tasks[t].pc = "stopping" =>
                poller'.tasks[t].pc \in {"stopping", "exited"}
       /\ \A c \in Callers :
             (poller.callers[c].pc = "idle" /\ ~poller.isRunning) =>
                poller'.callers[c].pc # "Stop.send"]_vars

\* The (type, ID) pairs of the mutations applied to container s.
AppliedKeys(s) == {<<a.arg.Type, a.arg.ID>> : a \in {b \in applied : b.target = s}}

\* C26: over every NewConfig, DeadConfig, Merge and Diff on a container, an
\* ID that Get reported present is still reported present; Len never
\* decreases and is the number of (type, ID) pairs ever applied to it.
C26_NeverForgotten ==
    [][\A s \in StoreNames :
          /\ (last'.op # "Copy" \/ last'.target = s) =>
                /\ \A typ \in Types, ID \in Ids :
                      Configs_Get(stores[s], typ, ID).ok =>
                         Configs_Get(stores'[s], typ, ID).ok
                /\ Configs_Len(stores'[s]) >= Configs_Len(stores[s])
          /\ Configs_Len(stores'[s]) = Cardinality(AppliedKeys(s)')
          /\ \A k \in AppliedKeys(s)' : Configs_Get(stores'[s], k[1], k[2]).ok]_vars

\* A tombstone killed a live config of a container that holds two entries.
C26_Witness ==
    /\ last.op = "DeadConfig" /\ last.isNew /\ last.oldConfig # Nil
    /\ Configs_Len(stores[last.target]) = 2

\* C30: s.Diff(o) returns the configs and the tombstones that
\* s.Copy().Merge(o) returns, and returns nothing right after s.Merge(o).
C30_DiffPreviewsMerge ==
    [][last'.op = "Diff" =>
          LET s == last'.target
          IN /\ StoreEqual(stores'[s], stores[s])
             /\ \A r \in Configs_Merge(Configs_Copy(stores[s]), stores[Other(s)]) :
                   /\ Range(r.newConfigs) = Range(last'.newConfigs)
                   /\ Range(r.deadConfigs) = Range(last'.deadConfigs)
                   /\ Len(r.newConfigs) = Len(last'.newConfigs)
                   /\ Len(r.deadConfigs) = Len(last'.deadConfigs)
             /\ last'.merged => (last'.newConfigs = << >> /\ last'.deadConfigs = << >>)]_vars

\* A Diff returned a tombstone that kills a config of its own version.
C30_Witness ==
    /\ last.op = "Diff"
    /\ \E i \in 1 .. Len(last.deadConfigs) :
          LET t == last.deadConfigs[i]
              got == Configs_Get(stores[last.target], t.Type, t.ID)
          IN got.Config # Nil /\ got.Config.Version = t.Version

\* A Diff right after a Merge that took entries.
DiffAfterMerge ==
    /\ last.op = "Diff" /\ last.merged
    /\ Keys(stores[last.target]) # {}

\* C21: once Close has returned, no call of RegisterState, UnregisterState,
\* NewConfig, DeadConfig, PushConfigs or Close puts anything in a channel of
\* the router.
C21_UseAfterClose ==
    [][mutator.pc = "closed" =>
          /\ \A ch \in Channels : queues'[ch] = queues[ch]
          /\ queues'.closeC = queues.closeC]_vars

Erring(state, m) ==
    {key \in DOMAIN state.KeyedStates :
        /\ Allows(StateTypes(key), m.arg.Type)
        /\ \E c \in StateCalls(key, state.Configs, m) :
              Configurable_Err(c.target, c.kind, c.arg) # Nil}

\* The accepted mutations of the message processed in this step for which a
\* registered state returns an error.
Failed ==
    {m \in Elements(last'.channel, last'.msg) :
        Accepts(last'.before.Configs, m) /\ Erring(last'.before, m) # {}}

RecordReported ==
    [][(ProcessStep /\ ~last'.out.panic /\ last'.channel # "pushConfigsC") =>
          \A m \in Failed :
             \E i \in 1 .. Len(last'.out.reports) :
                last'.out.reports[i].data.Blob = json_Marshal(m.arg).data]_vars

\* C25: RegisterState of a registered key and UnregisterState of a key that
\* is not registered panic; UnregisterState of a registered key removes it
\* from the routerState, no other message changes the keys, and only a
\* state that is registered receives calls.
C25_RegistrationKeys ==
    [][ProcessStep =>
          LET before == last'.before
              out == last'.out
              ch == last'.channel
              msg == last'.msg
              known == DOMAIN before.KeyedStates
          IN /\ (ch = "registerStateC" /\ msg.Key \in known) => out.panic
             /\ (ch = "unregisterStateC" /\ msg \notin known) => out.panic
             /\ out.panic => (mutator'.pc = "panicked" /\ current' = current)
             /\ ~out.panic =>
                   /\ DOMAIN out.state.KeyedStates =
                         CASE ch = "registerStateC" -> known \cup {msg.Key}
                           [] ch = "unregisterStateC" -> known \ {msg}
                           [] OTHER -> known
                   /\ Range(out.state.untypedStates) \subseteq DOMAIN out.state.KeyedStates
                   /\ \A typ \in DOMAIN out.state.typedStates :
                         Range(out.state.typedStates[typ]) \subseteq
                            DOMAIN out.state.KeyedStates
             /\ \A key \in StateKeys :
                   stateLog'[key] # stateLog[key] =>
                      (~out.panic /\ key \in DOMAIN out.state.KeyedStates)]_vars

\* A state that had received calls was unregistered, and a state registered
\* with it stays registered.
C25_Witness ==
    /\ last.op = "process" /\ last.channel = "unregisterStateC" /\ ~last.out.panic
    /\ stateLog[last.msg] # << >>
    /\ last.msg \notin DOMAIN last.out.state.KeyedStates

\* C29: until the goroutine has processed a message, the snapshot of a
\* Router constructed with Configs and States holds that container and
\* exactly those states, each of them has received NewConfig once for each
\* live config its types let through and nothing else, and no handler has
\* been called.
C29_InitialSeeding ==
    last.op = "init" =>
       /\ Router_get.Configs = last.Configs
       /\ DOMAIN Router_get.KeyedStates = last.States
       /\ \A h \in HandlerNames : handlerLog[h] = << >>
       /\ \A key \in StateKeys :
             LET live == {c \in LiveConfigs(last.Configs) :
                            Allows(StateTypes(key), c.Type)}
             IN IF key \in last.States
                THEN /\ Range(stateLog[key]) = {Call(key, "NewConfig", c) : c \in live}
                     /\ Len(stateLog[key]) = Cardinality(live)
                     /\ Router_get.KeyedStates[key].Data = live
                ELSE stateLog[key] = << >>

\* A Router constructed with a container of two live configs and a
\* tombstone and with the states "o0" and "o1": "o0" received both configs
\* and "o1" the one of type t1.
C29_Witness ==
    /\ last.op = "init"
    /\ last.States = {"o0", "o1"}
    /\ Len(stateLog["o0"]) = 2
    /\ Len(stateLog["o1"]) = 1
    /\ Configs_Len(Router_get.Configs) = 3

\* ------------------------------------------------------------- AOFConfigDB

\* A byte of the file: a character, by its code. The bytes of a JSON body
\* are the cells json_Marshal produces.
Char(code) == <<"char", code>>

Newline == Char(10)

\* "e74e1902".
magicAOF == [i \in 1 .. 8 |-> Char(<<101, 55, 52, 101, 49, 57, 48, 50>>[i])]

\* The types registered with RegisterType: NewConfig(name) returns an error
\* for any other.
RegisteredTypes == {0}

\* A checksum of the bytes of body, on 16 bits; it stands for the IEEE
\* CRC-32, of which the model uses only that it is a function of the body.
RECURSIVE crc32_ChecksumIEEE(_)
crc32_ChecksumIEEE(body) ==
    IF body = << >> THEN 0
    ELSE LET cell == body[Len(body)]
             code == (CASE cell[1] = "char" -> 0
                        [] cell[1] = "type" -> 256
                        [] cell[1] = "id" -> 512
                        [] cell[1] = "ver" -> 768
                        [] OTHER -> 1024) + cell[2]
         IN (31 * crc32_ChecksumIEEE(SubSeq(body, 1, Len(body) - 1)) + code + 1) % 65536

\* fmt.Sprintf("%08x", crc): eight hexadecimal digits, lower case.
Hex8(crc) ==
    [i \in 1 .. 8 |->
        LET d == (crc \div (16 ^ (8 - i))) % 16
        IN Char(IF d < 10 THEN 48 + d ELSE 87 + d)]

\* strconv.ParseUint(crcStr, 16, 32): the value of the digits, or an error
\* when a byte is not a hexadecimal digit.
RECURSIVE ParseUint(_)
ParseUint(str) ==
    IF str = << >> THEN [value |-> 0, err |-> FALSE]
    ELSE LET c == str[Len(str)]
             d == IF c[1] # "char" THEN -1
                  ELSE IF c[2] \in 48 .. 57 THEN c[2] - 48
                  ELSE IF c[2] \in 97 .. 102 THEN c[2] - 87
                  ELSE IF c[2] \in 65 .. 70 THEN c[2] - 55
                  ELSE -1
             rest == ParseUint(SubSeq(str, 1, Len(str) - 1))
         IN IF d < 0 \/ rest.err THEN [value |-> 0, err |-> TRUE]
            ELSE [value |-> 16 * rest.value + d, err |-> FALSE]

\* The line db.write(head, body) adds to the file.
AOF_write(head, body) ==
    magicAOF \o Hex8(crc32_ChecksumIEEE(body)) \o <<Char(head)>> \o body \o <<Newline>>

\* The value of a field of a JSON object, the zero value if it has none.
Field(body, name) ==
    IF \E i \in 1 .. Len(body) : body[i][1] = name
    THEN body[CHOOSE i \in 1 .. Len(body) : body[i][1] = name][2]
    ELSE 0

\* json.Unmarshal(body, config) through Config.UnmarshalJSON: an error when
\* the body is not JSON, and when it holds data of a type that is not
\* registered.
Config_UnmarshalJSON(body) ==
    IF \E i \in 1 .. Len(body) : body[i][1] = "char"
    THEN [err |-> TRUE]
    ELSE IF \E i \in 1 .. Len(body) : body[i][1] = "data"
    THEN IF Field(body, "type") \in RegisteredTypes
         THEN [err |-> FALSE,
               config |-> Config(Field(body, "type"), Field(body, "id"),
                                 Field(body, "ver"), Field(body, "data"))]
         ELSE [err |-> TRUE]
    ELSE [err |-> FALSE,
          config |-> [Type |-> Field(body, "type"), ID |-> Field(body, "id"),
                      Version |-> Field(body, "ver")]]

\* json.Unmarshal(body, tombstone).
Tombstone_Unmarshal(body) ==
    IF \E i \in 1 .. Len(body) : body[i][1] = "char"
    THEN [err |-> TRUE]
    ELSE [err |-> FALSE,
          tombstone |-> Tombstone(Field(body, "type"), Field(body, "id"),
                                  Field(body, "ver"))]

\* db.loadLine(line) on the container configs: a run-time panic when an
\* index or a slice is out of range, else the container and whether an
\* error is returned.
loadLine(configs, line) ==
    IF Len(line) < 18 THEN [panic |-> TRUE]
    ELSE LET magic == SubSeq(line, 1, 8)
             crcStr == SubSeq(line, 9, 16)
             head == line[17]
             body == SubSeq(line, 18, Len(line) - 1)
             crc == ParseUint(crcStr)
             failed == [panic |-> FALSE, err |-> TRUE, configs |-> configs]
         IN IF magic # magicAOF THEN failed
            ELSE IF crc.err THEN failed
            ELSE IF crc32_ChecksumIEEE(body) # crc.value THEN failed
            ELSE IF head = Char(110)
            THEN LET r == Config_UnmarshalJSON(body)
                 IN IF r.err THEN failed
                    ELSE [panic |-> FALSE, err |-> FALSE,
                          configs |-> Configs_NewConfig(configs, r.config).state]
            ELSE IF head = Char(116)
            THEN LET r == Tombstone_Unmarshal(body)
                 IN IF r.err THEN failed
                    ELSE [panic |-> FALSE, err |-> FALSE,
                          configs |-> Configs_DeadConfig(configs, r.tombstone).state]
            ELSE failed

\* The loop of db.load over the bytes of the file still to read:
\* reader.ReadBytes('\n') returns io.EOF, and the loop ends, when no newline
\* is left.
RECURSIVE load(_, _, _)
load(configs, file, loadError) ==
    IF \A i \in 1 .. Len(file) : file[i] # Newline
    THEN [panic |-> FALSE, configs |-> configs, loadError |-> loadError]
    ELSE LET n == CHOOSE i \in 1 .. Len(file) :
                     file[i] = Newline /\ \A j \in 1 .. (i - 1) : file[j] # Newline
             r == loadLine(configs, SubSeq(file, 1, n))
         IN IF r.panic THEN [panic |-> TRUE]
            ELSE load(r.configs, SubSeq(file, n + 1, Len(file)), loadError \/ r.err)

NoLoad == [called |-> FALSE]

\* An AOFConfigDB constructed on a file, before its Init.
NewAOFConfigDB(seed, file) ==
    [pc |-> "new", file |-> file, configs |-> NewConfigs, loadError |-> FALSE,
     seed |-> seed, log |-> << >>, opens |-> 0, loaded |-> NoLoad]

\* db.init: the file is opened and loaded.
AOF_init(db) ==
    LET r == load(NewConfigs, db.file, FALSE)
    IN IF r.panic THEN [db EXCEPT !.pc = "panicked"]
       ELSE [db EXCEPT !.pc = "open", !.configs = r.configs,
                       !.loadError = r.loadError, !.opens = @ + 1]

\* db.Init(): db.init, once.
AOF_Init(db) == IF db.pc = "new" THEN AOF_init(db) ELSE db

MayAppend == aof.pc \in {"new", "open"} /\ Len(aof.log) < MaxAppends

AOFUnchanged ==
    UNCHANGED <<storeVars, routerVars, pollerVars, last>>

\* db.NewConfig(config) that writes the config whether the container takes
\* it or not.
AOF_NewConfig_Always(config) ==
    /\ MayAppend
    /\ LET db == AOF_Init(aof)
           r == Configs_NewConfig(db.configs, config)
       IN aof' = IF db.pc = "panicked" THEN db
                 ELSE [db EXCEPT !.configs = r.state,
                                 !.file = @ \o AOF_write(110, json_Marshal(config).data),
                                 !.log = Append(@, [kind |-> "config", arg |-> config])]
    /\ AOFUnchanged

\* db.NewConfig(config).
AOF_NewConfig(config) ==
    /\ MayAppend
    /\ LET db == AOF_Init(aof)
           r == Configs_NewConfig(db.configs, config)
       IN aof' = IF db.pc = "panicked" THEN db
                 ELSE [db EXCEPT !.configs = r.state,
                                 !.file = IF r.isNew
                                          THEN @ \o AOF_write(110, json_Marshal(config).data)
                                          ELSE @,
                                 !.log = Append(@, [kind |-> "config", arg |-> config])]
    /\ AOFUnchanged

\* db.DeadConfig(tombstone).
AOF_DeadConfig(tombstone) ==
    /\ MayAppend
    /\ LET db == AOF_Init(aof)
           r == Configs_DeadConfig(db.configs, tombstone)
       IN aof' = IF db.pc = "panicked" THEN db
                 ELSE [db EXCEPT !.configs = r.state,
                                 !.file = IF r.isNew
                                          THEN @ \o AOF_write(116,
                                                       json_Marshal(tombstone).data)
                                          ELSE @,
                                 !.log = Append(@, [kind |-> "tombstone",
                                                    arg |-> tombstone])]
    /\ AOFUnchanged

\* db.Load(): the caller keeps the copy and the error it was handed.
AOF_Load ==
    /\ aof.pc \in {"new", "open"}
    /\ LET db == AOF_Init(aof)
       IN aof' = IF db.pc = "panicked" THEN db
                 ELSE [db EXCEPT !.loaded = [called |-> TRUE,
                                             configs |-> Configs_Copy(db.configs),
                                             err |-> db.loadError,
                                             log |-> db.log,
                                             file |-> db.file]]
    /\ AOFUnchanged

\* db.Close() of a database that is open.
AOF_Close ==
    /\ aof.pc = "open"
    /\ aof' = [aof EXCEPT !.pc = "closed"]
    /\ AOFUnchanged

\* A new AOFConfigDB is constructed on the file of one that was closed.
AOF_Reopen ==
    /\ aof.pc = "closed"
    /\ aof.opens < MaxOpens
    /\ aof' = [aof EXCEPT !.pc = "new", !.configs = NewConfigs, !.loadError = FALSE,
                          !.loaded = NoLoad]
    /\ AOFUnchanged

\* The configs and the tombstones handed to the database: of a registered
\* type and of one that is not, with data and without.
AOFConfigs ==
    {Config(0, 0, v, 0) : v \in Versions} \cup
    {Config(1, 0, 1, 0), [Type |-> 1, ID |-> 0, Version |-> 0]}

AOFTombstones == {Tombstone(t, 0, v) : t \in Types, v \in Versions}

\* The mutations of the two valid lines of the files the database is
\* constructed on, and the mutation of the line between them.
FirstLine == [kind |-> "config", arg |-> Config(0, 0, 0, 0)]
MiddleLine == [kind |-> "config", arg |-> Config(0, 0, 1, 1)]
LastLine == [kind |-> "tombstone", arg |-> Tombstone(1, 0, 0)]

\* The line of a mutation, as the database writes it.
LineOf(m) ==
    AOF_write(IF m.kind = "config" THEN 110 ELSE 116, json_Marshal(m.arg).data)

\* The line of MiddleLine with the corruption named.
Corrupted(kind) ==
    LET line == LineOf(MiddleLine)
        body == json_Marshal(MiddleLine.arg).data
    IN CASE kind = "magic" -> [line EXCEPT ![1] = Char(102)]
         [] kind = "crc" -> [line EXCEPT ![16] = Char(IF @[2] = 48 THEN 49 ELSE 48)]
         [] kind = "crcparse" -> [line EXCEPT ![16] = Char(122)]
         [] kind = "kind" -> [line EXCEPT ![17] = Char(120)]
         [] kind = "body" -> AOF_write(110, [body EXCEPT ![2] = Char(63)])
         [] kind = "short" -> SubSeq(line, 1, 12) \o <<Newline>>

Corruptions == {"magic", "crc", "crcparse", "kind", "body", "short"}

\* The files the database is constructed on: an empty file, a file of two
\* valid lines, that file with a corrupted line between the two, and that
\* file followed by a line cut short before its newline.
SeedFiles ==
    {[seed |-> "empty", file |-> << >>],
     [seed |-> "valid", file |-> LineOf(FirstLine) \o LineOf(LastLine)],
     [seed |-> "tail",
      file |-> LineOf(FirstLine) \o LineOf(LastLine) \o SubSeq(LineOf(MiddleLine), 1, 12)]}
    \cup
    {[seed |-> kind, file |-> LineOf(FirstLine) \o Corrupted(kind) \o LineOf(LastLine)] :
        kind \in Corruptions}

AOFInit ==
    /\ stores = [s \in StoreNames |-> NewConfigs]
    /\ applied = {}
    /\ last = [op |-> "Init"]
    /\ heap = EmptyMap
    /\ current = 0
    /\ queues = EmptyMap
    /\ mutator = [pc |-> "none"]
    /\ handlerLog = EmptyMap
    /\ stateLog = EmptyMap
    /\ reader = [held |-> 0]
    /\ calls = 0
    /\ poller = [pc |-> "none"]
    /\ \E f \in SeedFiles : aof = NewAOFConfigDB(f.seed, f.file)

AOFNext ==
    \/ \E config \in AOFConfigs : AOF_NewConfig(config)
    \/ \E tombstone \in AOFTombstones : AOF_DeadConfig(tombstone)
    \/ AOF_Load
    \/ AOF_Close
    \/ AOF_Reopen

SpecAOF == AOFInit /\ [][AOFNext]_vars

\* The lines of a file: the number of newlines it holds.
Lines(file) == Cardinality({i \in 1 .. Len(file) : file[i] = Newline})

\* The number of mutations of a sequence a container accepts when they are
\* applied to it in order.
RECURSIVE AcceptedOf(_, _)
AcceptedOf(configs, ms) ==
    IF ms = << >> THEN 0
    ELSE LET r == Apply(configs, Head(ms))
         IN (IF r.isNew THEN 1 ELSE 0) + AcceptedOf(r.state, Tail(ms))

\* Load was called on a database reopened on a file that was empty when the
\* first database was constructed on it.
Replayed27 == aof.seed = "empty" /\ aof.opens >= 2 /\ aof.loaded.called

\* The container Load returned holds the entries, of the same kind and
\* version, that the calls made before it leave in an empty container, and
\* the file holds one line for each call the container accepted.
ReplayEqual ==
    /\ StoreEqualHeaders(aof.loaded.configs, ApplyAll(NewConfigs, aof.loaded.log))
    /\ Lines(aof.loaded.file) = AcceptedOf(NewConfigs, aof.loaded.log)

\* C27 as stated: whatever NewConfig and DeadConfig calls were made on a
\* database whose file was empty, after Close a database reopened on the
\* file loads what those calls, merged in order, leave in an empty
\* container, and only accepted mutations were written.
C27_Replay_AnyCalls == Replayed27 => ReplayEqual

\* Every config handed to the database carries no data or is of a registered
\* type.
Decodable(log) ==
    \A i \in 1 .. Len(log) :
       (log[i].kind = "config" /\ "Data" \in DOMAIN log[i].arg) =>
          log[i].arg.Type \in RegisteredTypes

\* C27: when every config handed to the database carries no data or data of
\* a registered type, after Close a database reopened on the file loads what
\* the calls, merged in order, leave in an empty container, and only
\* accepted mutations were written.
C27_Replay == (Replayed27 /\ Decodable(aof.loaded.log)) => ReplayEqual

\* Three calls, of which the container rejected one and one is a tombstone
\* that killed a config, were replayed by a reopened database.
C27_Witness ==
    /\ Replayed27
    /\ Decodable(aof.loaded.log)
    /\ Len(aof.loaded.log) = 3
    /\ Lines(aof.loaded.file) = 2
    /\ \E i \in 1 .. 3 : aof.loaded.log[i].kind = "tombstone"
    /\ Configs_Len(aof.loaded.configs) = 1
    /\ ~aof.loaded.err

\* The database was constructed on a file that holds a corrupted line and
\* nothing was written to it since.
Corrupt28 ==
    /\ aof.seed \notin {"empty", "valid"}
    /\ aof.log = << >>
    /\ aof.opens <= 1

\* C28: a database constructed on a file with a corrupted line loads it
\* without a panic, Load returns the container the valid lines make, in
\* order, and the corrupted-log error.
C28_CorruptionTolerated ==
    Corrupt28 =>
       /\ aof.pc # "panicked"
       /\ aof.loaded.called =>
             /\ StoreEqual(aof.loaded.configs,
                           ApplyAll(NewConfigs, <<FirstLine, LastLine>>))
             /\ aof.loaded.err

\* A line of 18 bytes or more that ends with a newline and is corrupted
\* (magic, checksum, kind or body) is skipped and reported.
LongLinesTolerated ==
    (Corrupt28 /\ aof.seed \in {"magic", "crc", "crcparse", "kind", "body"}) =>
       /\ aof.pc # "panicked"
       /\ aof.loaded.called =>
             /\ StoreEqual(aof.loaded.configs,
                           ApplyAll(NewConfigs, <<FirstLine, LastLine>>))
             /\ aof.loaded.err

\* A line cut short at the end of the file is skipped.
TailSkipped ==
    (Corrupt28 /\ aof.seed = "tail") =>
       /\ aof.pc # "panicked"
       /\ aof.loaded.called =>
             StoreEqual(aof.loaded.configs, ApplyAll(NewConfigs, <<FirstLine, LastLine>>))

\* C31: s.Diff(o) leaves container s as it was: the same types, and for each
\* type the same configs and the same tombstones.
C31_DiffNonMutating ==
    [][last'.op = "Diff" => stores'[last'.target] = stores[last'.target]]_vars

\* s.Diff(o) leaves the configs and the tombstones of every type s held as
\* they were, and a type it adds to s holds nothing.
DiffKeepsEntries ==
    [][last'.op = "Diff" =>
          LET before == stores[last'.target]
              after == stores'[last'.target]
          IN /\ DOMAIN before.Types \subseteq DOMAIN after.Types
             /\ \A typ \in DOMAIN before.Types : after.Types[typ] = before.Types[typ]
             /\ \A typ \in DOMAIN after.Types \ DOMAIN before.Types :
                   after.Types[typ] = NewTypeConfigs]_vars

\* C32: when the store accepts DeadConfig(T) from the router, every handler
\* whose types let T through receives DeadConfig(T) and nothing else; every
\* registered state whose types let T through receives DeadConfig(O), O the
\* live config T removed, and nothing else, and receives nothing when T
\* removed no live config (no entry, or an older tombstone).
C32_TombstoneNotifications ==
    [][(ProcessStep /\ last'.channel = "deadConfigC") =>
        LET m == [kind |-> "tombstone", arg |-> last'.msg]
            store == last'.before.Configs
            old == Replaced(store, m)
        IN Accepts(store, m) =>
              /\ \A h \in HandlerNames :
                    Allows(HandlerTypes(h), m.arg.Type) =>
                       Gained(handlerLog[h], handlerLog'[h]) =
                          <<Call(h, "DeadConfig", last'.msg)>>
              /\ \A key \in DOMAIN last'.before.KeyedStates :
                    Allows(StateTypes(key), m.arg.Type) =>
                       Gained(stateLog[key], stateLog'[key]) =
                          IF old # Nil THEN <<Call(key, "DeadConfig", old)>> ELSE << >>]_vars

\* The store accepted a tombstone that removed a live config, and the state
\* registered under "o0" received DeadConfig of that config.
C32_Witness ==
    /\ last.op = "process" /\ last.channel = "deadConfigC"
    /\ Accepts(last.before.Configs, [kind |-> "tombstone", arg |-> last.msg])
    /\ Replaced(last.before.Configs, [kind |-> "tombstone", arg |-> last.msg]) # Nil
    /\ "o0" \in DOMAIN last.before.KeyedStates
    /\ stateLog["o0"][Len(stateLog["o0"])].kind = "DeadConfig"
    /\ stateLog["o0"][Len(stateLog["o0"])].arg # last.msg
    /\ handlerLog["H3"][Len(handlerLog["H3"])] = Call("H3", "DeadConfig", last.msg)

\* The store accepted a tombstone for an ID it held no live config of, and
\* a registered state whose types let it through received nothing.
TombstoneOverAbsent ==
    /\ last.op = "process" /\ last.channel = "deadConfigC"
    /\ Accepts(last.before.Configs, [kind |-> "tombstone", arg |-> last.msg])
    /\ Replaced(last.before.Configs, [kind |-> "tombstone", arg |-> last.msg]) = Nil
    /\ "o0" \in DOMAIN last.before.KeyedStates
    /\ handlerLog["H3"] # << >>

\* -------------------------------------------- a router and what it was sent

\* Router.init with Configs and States left nil; applied will hold the
\* messages producers sent to the router, in the order of the sends.
MirrorInit ==
    /\ stores = [s \in StoreNames |-> NewConfigs]
    /\ applied = << >>
    /\ last = [op |-> "init"]
    /\ heap = MapPut(EmptyMap, 1, newRouterState(Nil, RouterHandlers))
    /\ current = 1
    /\ queues = [ch \in Channels |-> << >>] @@ [closeC |-> << >>, order |-> << >>]
    /\ mutator = Idle
    /\ handlerLog = [h \in {RouterHandlers[i] : i \in 1 .. Len(RouterHandlers)} |-> << >>]
    /\ stateLog = [key \in StateKeys |-> << >>]
    /\ reader = NoRead
    /\ calls = 0
    /\ poller = [pc |-> "none"]
    /\ aof = [pc |-> "none"]

\* router.NewConfig, router.DeadConfig or router.PushConfigs: ch <- msg.
Mirror_Send(ch, msg) ==
    /\ MayCall
    /\ Len(queues[ch]) < queueSize
    /\ queues' = [queues EXCEPT ![ch] = Append(@, msg), !.order = Append(@, ch)]
    /\ calls' = calls + 1
    /\ applied' = Append(applied, [channel |-> ch, msg |-> msg])
    /\ UNCHANGED <<stores, pollerVars, aofVars, last, heap, current, mutator, handlerLog,
                   stateLog, reader>>

MirrorNext ==
    \/ \E config \in RouterConfigs : Mirror_Send("newConfigC", config)
    \/ \E tombstone \in RouterTombstones : Mirror_Send("deadConfigC", tombstone)
    \/ \E configs \in PushedConfigs : Mirror_Send("pushConfigsC", configs)
    \/ \E ch \in Channels : Select(ch)
    \/ \E ch \in Channels : ProcessMore(ch)
    \/ Publish

SpecMirror == MirrorInit /\ [][MirrorNext]_vars

\* The container that results when the messages of a sequence are applied
\* one at a time, in order, to an empty container.
RECURSIVE OneAtATime(_)
OneAtATime(sent) ==
    IF sent = << >> THEN NewConfigs
    ELSE LET op == sent[Len(sent)]
         IN ApplyAll(OneAtATime(SubSeq(sent, 1, Len(sent) - 1)),
                     CHOOSE order \in RangeOrders(Elements(op.channel, op.msg)) : TRUE)

\* The calls handler h receives when the messages of a sequence are processed
\* one at a time, in order: for each message that brings it calls, the set
\* of them (the calls for the entries of a container come in any order).
RECURSIVE CallsOneAtATime(_, _)
CallsOneAtATime(h, sent) ==
    IF sent = << >> THEN << >>
    ELSE LET op == sent[Len(sent)]
             earlier == SubSeq(sent, 1, Len(sent) - 1)
             store == OneAtATime(earlier)
             due == {HandlerCall(h, m) :
                       m \in {n \in Elements(op.channel, op.msg) :
                                 /\ Apply(store, n).isNew
                                 /\ Allows(HandlerTypes(h), n.arg.Type)}}
         IN CallsOneAtATime(h, earlier) \o (IF due = {} THEN << >> ELSE <<due>>)

\* A log holds the calls of a sequence of sets, set after set.
RECURSIVE SetAfterSet(_, _)
SetAfterSet(log, sets) ==
    IF sets = << >> THEN log = << >>
    ELSE LET n == Cardinality(Head(sets))
         IN /\ Len(log) >= n
            /\ Range(SubSeq(log, 1, n)) = Head(sets)
            /\ SetAfterSet(SubSeq(log, n + 1, Len(log)), Tail(sets))

\* The router has processed and published everything it was sent.
AllProcessed ==
    /\ mutator.pc = "select"
    /\ \A ch \in Channels : queues[ch] = << >>

\* C33: once the router has processed everything it was sent, the container
\* it publishes is the one that results from the same messages applied one at
\* a time, in the order they were sent, to an empty container, and each
\* handler has received the calls it would have received from them, in the
\* same order.
C33_BatchingKeepsSemantics ==
    AllProcessed =>
       /\ StoreEqual(Router_get.Configs, OneAtATime(applied))
       /\ \A h \in HandlerNames : SetAfterSet(handlerLog[h], CallsOneAtATime(h, applied))

\* The container published is the one the messages sent make, applied one at
\* a time in the order they were sent.
BatchingKeepsStore ==
    AllProcessed => StoreEqual(Router_get.Configs, OneAtATime(applied))

\* When every message was sent on the same channel, each handler has received
\* the calls of the messages processed one at a time in the order sent,
\* however the router batched them.
BatchingKeepsCallsOfOneChannel ==
    (AllProcessed /\ \A i, j \in 1 .. Len(applied) : applied[i].channel = applied[j].channel)
       => \A h \in HandlerNames : SetAfterSet(handlerLog[h], CallsOneAtATime(h, applied))

\* --------------------------------------------------- a router kept busy

\* router.NewConfig or router.DeadConfig, by producers that keep calling.
Batch_Send(ch, msg) ==
    /\ calls < MaxBatchCalls
    /\ Len(queues[ch]) < queueSize
    /\ queues' = [queues EXCEPT ![ch] = Append(@, msg), !.order = Append(@, ch)]
    /\ calls' = calls + 1
    /\ UNCHANGED <<storeVars, pollerVars, aofVars, last, heap, current, mutator, handlerLog,
                   stateLog, reader>>

BatchNext ==
    \/ Batch_Send("newConfigC", Config(0, 0, 0, 0))
    \/ Batch_Send("deadConfigC", Tombstone(0, 0, 0))
    \/ \E ch \in Channels : Select(ch)
    \/ \E ch \in Channels : ProcessMore(ch)
    \/ Publish

SpecBatch == RouterInit /\ [][BatchNext]_vars

\* C34: the goroutine copies the published routerState when it receives a
\* message at its select and not again until it has published; it applies to
\* that copy the message and at most 16 more, each one available when it
\* looks; it publishes the copy once, when 16 more are done or no message is
\* available, and Router.state changes at no other time.  (A message that
\* makes the goroutine panic ends it.)
C34_BatchBound ==
    [][/\ mutator'.pc = "processMore" => mutator'.i <= 16
       /\ (ProcessStep /\ mutator.pc = "select" /\ mutator'.pc # "panicked") =>
             /\ mutator'.state \notin DOMAIN heap
             /\ mutator'.i = 0
             /\ current' = current
       /\ (ProcessStep /\ mutator.pc = "processMore") => mutator.i < 16
       /\ (ProcessStep /\ mutator.pc = "processMore" /\ mutator'.pc # "panicked") =>
             /\ mutator'.i = mutator.i + 1
             /\ mutator'.state = mutator.state
             /\ current' = current
       /\ (mutator.pc = "processMore" /\ mutator'.pc = "select") =>
             /\ current' = mutator.state
             /\ heap'[current'] = heap[mutator.state]
             /\ mutator.i = 16 \/ \A ch \in Channels : queues[ch] = << >>
       /\ current' # current => (mutator.pc = "processMore" /\ mutator'.pc = "select")
       /\ (mutator.pc = "processMore" /\ mutator.i < 16
              /\ \E ch \in Channels : queues[ch] # << >>) => current' = current]_vars

\* The goroutine has applied 17 messages to its copy and more are available:
\* it is about to publish.
C34_Witness ==
    /\ mutator.pc = "processMore"
    /\ mutator.i = 16
    /\ \E ch \in Channels : queues[ch] # << >>
    /\ calls >= 17

\* The goroutine ended a batch of fewer than 17 messages because no message
\* was available.
ShortBatch ==
    /\ mutator.pc = "processMore"
    /\ mutator.i \in 1 .. 15
    /\ \A ch \in Channels : queues[ch] = << >>

\* ------------------------------------------------ a Poller on a NullClient

\* Two routers after Router.init, and a Poller constructed on router "B"
\* with a NullClient as its Remote, not started.
NullInit ==
    /\ stores = [r \in StoreNames |-> NewConfigs]
    /\ applied = {}
    /\ last = [op |-> "init"]
    /\ heap = EmptyMap
    /\ current = 0
    /\ queues = [r \in StoreNames |-> [ch \in PollerChannels |-> << >>]]
    /\ mutator = [pc |-> "none"]
    /\ handlerLog = EmptyMap
    /\ stateLog = EmptyMap
    /\ reader = [held |-> 0]
    /\ calls = 0
    /\ \E Push, Pull \in BOOLEAN :
          /\ Push \/ Pull
          /\ poller = [Local |-> "B", Remote |-> "null", Push |-> Push, Pull |-> Pull,
                       isRunning |-> FALSE,
                       tasks |-> [t \in Tasks |-> NoTask],
                       callers |-> [c \in Callers |-> [pc |-> "idle"]],
                       controls |-> 0]
    /\ aof = [pc |-> "none"]

SpecNull == NullInit /\ [][PollerNext]_vars

\* C35: a router that receives what the PullConfigs of a NullClient
\* returned, which the Poller pushed into it, applies no mutation and its
\* goroutine goes on running.
C35_NullClientNoOp ==
    [][\A r \in StoreNames :
          (/\ queues[r].pushConfigsC # << >>
           /\ queues'[r].pushConfigsC = Tail(queues[r].pushConfigsC)
           /\ Head(queues[r].pushConfigsC) = Nil)
          => (stores' = stores /\ mutator'.pc # "panicked")]_vars

\* The push step of a poll() on a NullClient changes nothing of the routers:
\* no message is sent and no store changes.
NullPushNoOp ==
    [][\A t \in Tasks :
          (/\ poller.tasks[t].pc = "poll"
           /\ poller'.tasks[t] # poller.tasks[t]
           /\ Head(poller.tasks[t].todo) = "push")
          => (queues' = queues /\ stores' = stores /\ mutator' = mutator)]_vars

\* ------------------------------------------ derived state tracks the store

\* C36: in the published snapshot, every registered state object holds
\* exactly the live configs of that snapshot's store that pass its type
\* filter, whatever registrations and mutations were applied, in one batch or
\* several.
C36_DerivedStateTracksStore ==
    \A key \in DOMAIN Router_get.KeyedStates :
        Router_get.KeyedStates[key].Data =
            Matching(Router_get.Configs, StateTypes(key))

\* A published snapshot where the typed state holds a config and the store
\* holds a live config that the filter of the typed state excludes.
C36_Witness ==
    /\ "o1" \in DOMAIN Router_get.KeyedStates
    /\ Router_get.KeyedStates["o1"].Data # {}
    /\ Router_get.KeyedStates["o1"].Data # LiveConfigs(Router_get.Configs)

\* A published snapshot where a state was registered, received a config and
\* lost it again to a tombstone.
TrackedRemoval ==
    /\ "o0" \in DOMAIN Router_get.KeyedStates
    /\ Router_get.KeyedStates["o0"].Data = {}
    /\ \E call \in Range(stateLog["o0"]) : call.kind = "DeadConfig"

\* ------------------------------------- two routers forwarding to each other

\* The router a forwarding handler of router r sends to.
Peer(r) == CHOOSE o \in StoreNames : o # r

\* The channel of the peer that a call on an HTTPClient handler ends in:
\* HTTPClient.NewConfig posts the config to the HTTPEndpoint of the peer,
\* which calls Router.NewConfig; DeadConfig likewise.
ForwardChannel(call) ==
    IF call.kind = "NewConfig" THEN "newConfigC" ELSE "deadConfigC"

\* Two routers after Router.init, each with one untyped handler that forwards
\* to the other; handlerLog holds the calls made on the handler of each.
ForwardInit ==
    /\ stores = [r \in StoreNames |-> NewConfigs]
    /\ applied = {}
    /\ last = [op |-> "init"]
    /\ heap = EmptyMap
    /\ current = 0
    /\ queues = [r \in StoreNames |-> [ch \in PollerChannels |-> << >>]]
    /\ mutator = [pc |-> "none"]
    /\ handlerLog = [r \in StoreNames |-> << >>]
    /\ stateLog = EmptyMap
    /\ reader = [held |-> 0]
    /\ calls = 0
    /\ poller = [pc |-> "none"]
    /\ aof = [pc |-> "none"]

\* The goroutine of router r receives from ch and applies the message; its
\* handler is called for an accepted mutation and sends it to the peer, which
\* waits for room in the channel of the peer.
Forward_RouterStep(r, ch) ==
    /\ ch \in {"newConfigC", "deadConfigC"}
    /\ queues[r][ch] # << >>
    /\ \E copy \in routerState_Copy(newRouterState(stores[r], <<"H3">>)) :
          \E out \in Process(copy.state, ch, Head(queues[r][ch])) :
             /\ ~out.panic
             /\ \A i \in 1 .. Len(out.handlerCalls) :
                   Len(queues[Peer(r)][ForwardChannel(out.handlerCalls[i])])
                       < PollerQueueSize
             /\ queues' =
                   [q \in StoreNames |->
                      [c \in PollerChannels |->
                         IF q = r
                         THEN IF c = ch THEN Tail(queues[q][c]) ELSE queues[q][c]
                         ELSE queues[q][c] \o
                              [i \in 1 .. Len(SelectSeq(out.handlerCalls,
                                       LAMBDA call : ForwardChannel(call) = c)) |->
                                  SelectSeq(out.handlerCalls,
                                       LAMBDA call : ForwardChannel(call) = c)[i].arg]]]
             /\ stores' = [stores EXCEPT ![r] = out.state.Configs]
             /\ handlerLog' = [handlerLog EXCEPT ![r] = @ \o out.handlerCalls]
    /\ UNCHANGED <<applied, last, calls, poller, heap, current, mutator, stateLog, reader,
                   aofVars>>

ForwardNext ==
    \/ \E r \in StoreNames, config \in PollerConfigs : Poller_Mutate(r, "newConfigC", config)
    \/ \E r \in StoreNames, tombstone \in PollerTombstones :
          Poller_Mutate(r, "deadConfigC", tombstone)
    \/ \E r \in StoreNames, ch \in PollerChannels : Forward_RouterStep(r, ch)

SpecForward == ForwardInit /\ [][ForwardNext]_vars

\* What a notification is about: the kind of the call and the type, id and
\* version of its argument.
NotificationKey(call) ==
    <<call.kind, call.arg.Type, call.arg.ID, call.arg.Version>>

NoDuplicates(log) ==
    \A i, j \in 1 .. Len(log) :
        NotificationKey(log[i]) = NotificationKey(log[j]) => i = j

\* C37: no handler is ever notified twice of the same (type, id, version,
\* kind), whatever is delivered again; so, between two routers that forward
\* to each other through a handler, each router forwards a mutation at most
\* once.
C37_NoDuplicateNotifications ==
    \A h \in DOMAIN handlerLog : NoDuplicates(handlerLog[h])

\* Both routers have forwarded the same mutation, once each, nothing is in
\* flight any more, and more mutations were injected than were forwarded by a
\* router: something was delivered again and not notified.
C37_Witness ==
    /\ \A r \in StoreNames : Len(handlerLog[r]) = 1
    /\ handlerLog["A"] = handlerLog["B"]
    /\ calls = 2
    /\ \A r \in StoreNames, ch \in PollerChannels : queues[r][ch] = << >>

\* The forwarding stops: the routers never forward more than what was
\* injected, once each.
ForwardingStops ==
    \A r \in StoreNames : Len(handlerLog[r]) <= calls

\* --------------------------------------------- register, then unregister

\* C38: when the registration of a key is the earliest message pending, sent
\* before the unregistration of the same key, the goroutine does not reach
\* the "key was not registered" assertion on receiving the unregistration:
\* it has applied the registration first.
C38_RegisterThenUnregister ==
    [][\A key \in StateKeys :
          (/\ queues.registerStateC # << >>
           /\ Head(queues.registerStateC).Key = key
           /\ Earliest(queues.order) = "registerStateC"
           /\ queues.unregisterStateC # << >>
           /\ Head(queues.unregisterStateC) = key
           /\ queues'.unregisterStateC = Tail(queues.unregisterStateC))
          => mutator'.pc # "panicked"]_vars

\* Received in the order they were sent, the two leave the key out of the
\* working copy without reaching the assertion.
UnregisterAfterRegisterApplied ==
    [][\A key \in StateKeys :
          (/\ mutator.pc = "processMore"
           /\ key \in DOMAIN heap[mutator.state].KeyedStates
           /\ queues.unregisterStateC # << >>
           /\ Head(queues.unregisterStateC) = key
           /\ queues'.unregisterStateC = Tail(queues.unregisterStateC))
          => /\ mutator'.pc = "processMore"
             /\ key \notin DOMAIN heap'[mutator'.state].KeyedStates]_vars

\* ------------------------------------------------- notify before publish

\* The calls a log received in the step.
NewCalls(before, after) ==
    {after[i] : i \in (Len(before) + 1) .. Len(after)}

\* Whether a store holds what a handler was notified of: the config as the
\* live config of its id, or a tombstone of that version.
Holds(configs, call) ==
    IF call.kind = "NewConfig"
    THEN call.arg \in LiveConfigs(configs)
    ELSE call.arg \in DeadConfigs(configs)

\* C39: a step in which a handler or a state is notified does not publish:
\* Router.state and the snapshot it refers to stay as they were, and that
\* snapshot, which PullConfigs and State return, does not hold the mutation a
\* handler was notified of. The step that publishes notifies nobody.
C39_NotifyBeforePublish ==
    [][/\ (handlerLog' # handlerLog \/ stateLog' # stateLog)
           => /\ current' = current
              /\ heap'[current'] = heap[current]
              /\ \A h \in DOMAIN handlerLog :
                    \A call \in NewCalls(handlerLog[h], handlerLog'[h]) :
                        /\ ~Holds(heap'[current'].Configs, call)
                        /\ mutator'.pc = "processMore"
                        /\ mutator'.state # current'
                        /\ Holds(heap'[mutator'.state].Configs, call)
       /\ current' # current
           => /\ mutator.pc = "processMore"
              /\ current' = mutator.state
              /\ mutator'.pc = "select"]_vars

\* A handler has been notified of a config and of its tombstone in one batch
\* that is not published yet: the published store is still empty.
C39_Witness ==
    /\ mutator.pc = "processMore"
    /\ mutator.i = 1
    /\ Len(handlerLog["H3"]) = 2
    /\ Router_get.Configs = NewConfigs
    /\ DeadConfigs(heap[mutator.state].Configs) # {}

\* ------------------------------------------------------- Poller restart

\* A Stop has returned and nothing of the poller runs: no call of Start or
\* Stop is in progress and no goroutine is polling or waiting for a tick.
StopReturned ==
    /\ \A c \in Callers : poller.callers[c].pc = "idle"
    /\ \A t \in Tasks : poller.tasks[t].pc \notin {"poll", "select"}
    /\ \E t \in Tasks : poller.tasks[t].pc \in {"stopping", "exited"}

\* The step is a call of Start, up to its read of poller.isRunning.
StartCalled ==
    /\ poller'.controls = poller.controls + 1
    /\ IF poller.isRunning
       THEN poller'.callers = poller.callers
       ELSE \E c \in Callers : poller'.callers[c].pc = "Start.set"

\* Two routers after Router.init and a Poller on router "B" with router "A"
\* as its Remote, on which Start has just returned: isRunning is set and the
\* goroutine is about to make its first poll.
RestartInit ==
    /\ stores = [r \in StoreNames |-> NewConfigs]
    /\ applied = {}
    /\ last = [op |-> "init"]
    /\ heap = EmptyMap
    /\ current = 0
    /\ queues = [r \in StoreNames |-> [ch \in PollerChannels |-> << >>]]
    /\ mutator = [pc |-> "none"]
    /\ handlerLog = EmptyMap
    /\ stateLog = EmptyMap
    /\ reader = [held |-> 0]
    /\ calls = 0
    /\ \E Push, Pull \in BOOLEAN :
          /\ Push \/ Pull
          /\ poller = [Local |-> "B", Remote |-> "A", Push |-> Push, Pull |-> Pull,
                       isRunning |-> TRUE,
                       tasks |-> [t \in Tasks |->
                                    IF t = 1
                                    THEN [pc |-> "poll", todo |-> poll(Push, Pull),
                                          done |-> << >>, remote |-> Nil]
                                    ELSE NoTask],
                       callers |-> [c \in Callers |-> [pc |-> "idle"]],
                       controls |-> 0]
    /\ aof = [pc |-> "none"]

SpecRestart == RestartInit /\ [][PollerNext]_vars

\* C40: a Start called after a Stop has returned goes on to start a new
\* goroutine; it does not return because the poller still looks running.
C40_Restart ==
    [][(StopReturned /\ StartCalled)
          => \E c \in Callers : poller'.callers[c].pc = "Start.set"]_vars

\* Once the stopped goroutine has cleared isRunning and returned, a Start
\* starts a new goroutine, which begins with a poll.
RestartAfterExit ==
    [][/\ ((\A t \in Tasks : poller.tasks[t].pc \in {"none", "exited"})
              /\ StopReturned /\ StartCalled)
          => \E c \in Callers : poller'.callers[c].pc = "Start.set"
       /\ \A c \in Callers :
             (poller.callers[c].pc = "Start.set" /\ poller'.callers[c].pc = "idle")
             => /\ poller'.isRunning
                /\ \E t \in Tasks : /\ poller.tasks[t].pc \in {"none", "exited"}
                                    /\ poller'.tasks[t].pc = "poll"]_vars

====
